---- MODULE Spec2Model ----
(***************************************************************************)
(* Model of the Tableau metadata pipeline: the two XML extractors          *)
(* (parsers/workbook_parser.py, parsers/prep_flow_parser.py), the context  *)
(* manager (core/context_manager.py), the chat history of the prompt       *)
(* builder (core/prompt_builder.py) and the chat page (ui/app.py) with the *)
(* feedback table (core/feedback_logger.py).                               *)
(*                                                                         *)
(* Conventions.                                                            *)
(*  - A Python str is a sequence of atoms (each atom a chunk of            *)
(*    characters), so '' is <<>>, startswith is a prefix test and `in` is  *)
(*    a contiguous-subsequence test.                                       *)
(*  - Python None is the value None; a raised exception is a Raise value.  *)
(*  - A text with line breaks is the sequence of its lines.                *)
(*  - A dict is a record; {} and [] are both <<>>.                         *)
(*  - An XML document is the sequence of the elements below its root in    *)
(*    document order; an element is [tag, parent, attrs], parent 0 being   *)
(*    the root, attrs a function from the attribute names that are present *)
(*    to their values.                                                     *)
(***************************************************************************)
EXTENDS Integers, Sequences, FiniteSets, TLC

VARIABLES
    xml_file,  \* the file at xml_path: missing, malformed or a document
    wb,        \* the WorkbookParser object: xml_path, the root element's
               \* attributes (top) and the elements below it (root); the
               \* exception raised when its construction failed
    wbOut,     \* result of WorkbookParser.parse_to_dict, NotCalled before
    pf,        \* the PrepFlowParser object, likewise
    pfOut,     \* result of PrepFlowParser.parse_to_dict, NotCalled before
    issues_file,    \* the Excel export at issues_path
    metadata_files, \* the JSON files below metadata_dir
    environ,        \* os.environ['MAX_HISTORICAL_ISSUES'], None when unset
    cm,             \* the ContextManager object: issues_df, and the number
                    \* of pd.read_excel calls made on its behalf
    call,           \* the last ContextManager call: op, args and result
    session_state,  \* st.session_state of the chat page: chat_history,
                    \* selected_dashboard, selected_dashboard_type and
                    \* show_feedback_form
    selectbox,      \* the display name chosen in the dashboard selector
    feedback,       \* the rows of the feedback table, in insertion order
    origin          \* history variable: for each entry of chat_history,
                    \* the dashboard name and type stored in the session
                    \* when the entry was appended

parserVars == <<xml_file, wb, wbOut, pf, pfOut>>
contextVars == <<issues_file, metadata_files, environ, cm, call>>
uiVars == <<session_state, selectbox, feedback, origin>>
vars == <<xml_file, wb, wbOut, pf, pfOut, issues_file, metadata_files, environ, cm, call,
          session_state, selectbox, feedback, origin>>

-----------------------------------------------------------------------------
(* Python values *)

\* None is a one-atom sequence whose atom occurs in no str of the model, so
\* that it can be compared with every str.
None == <<"<None>">>
Raise(exc) == [py |-> "raise", exc |-> exc]
IsRaise(v) == DOMAIN v = {"py", "exc"}
Return(value) == [py |-> "return", value |-> value]
NotCalled == [py |-> "not called"]

\* No chat page is open.
NoSession ==
    /\ session_state = NotCalled
    /\ selectbox = NotCalled
    /\ feedback = NotCalled
    /\ origin = NotCalled

\* None where a dict or a DataFrame is expected.
NoneRecord == [py |-> "None"]

S(atom) == <<atom>>
EmptyStr == <<>>
EmptyDict == <<>>

\* bool(v) of a str or None
Truthy(v) == v # None /\ v # EmptyStr

startswith(s, prefix) ==
    /\ Len(s) >= Len(prefix)
    /\ SubSeq(s, 1, Len(prefix)) = prefix

StrIn(sub, s) ==
    \E i \in 0..(Len(s) - Len(sub)) : SubSeq(s, i + 1, i + Len(sub)) = sub

-----------------------------------------------------------------------------
(* xml.etree.ElementTree as the parsers use it *)

RECURSIVE IsDescendant(_, _, _)
IsDescendant(root, j, ctx) ==
    IF j = 0 THEN FALSE
    ELSE root[j].parent = ctx \/ IsDescendant(root, root[j].parent, ctx)

Has(e, key) == key \in DOMAIN e.attrs

\* The path steps the parsers use: 'tag', 'tag[@key]' and 'tag[@key="val"]'.
Tag(tag) == [tag |-> tag, key |-> "", val |-> None]
TagWith(tag, key) == [tag |-> tag, key |-> key, val |-> None]
TagEq(tag, key, val) == [tag |-> tag, key |-> key, val |-> val]

Matches(e, step) ==
    /\ e.tag = step.tag
    /\ \/ step.key = ""
       \/ /\ Has(e, step.key)
          /\ (step.val = None \/ e.attrs[step.key] = step.val)

\* ctx.findall('.//step'): the descendants of ctx that match, in document
\* order.
findall(root, ctx, step) ==
    SelectSeq([j \in 1..Len(root) |-> j],
              LAMBDA j : IsDescendant(root, j, ctx) /\ Matches(root[j], step))

\* ctx.find('.//step'): the first such descendant, 0 standing for None.
find(root, ctx, step) ==
    LET all == findall(root, ctx, step) IN IF all = <<>> THEN 0 ELSE all[1]

\* element.get(key, default)
Get(e, key, default) == IF Has(e, key) THEN e.attrs[key] ELSE default

\* element.get(key)
Get1(e, key) == Get(e, key, None)

-----------------------------------------------------------------------------
(* parsers/workbook_parser.py *)

ReservedPrefix == S("Parameters")
SampleFile == S("Sample File")
Calculated == S("Calculated")

IsConnection == Tag("connection")
IsCalculation == Tag("calculation")

_extract_connection(root, datasource) ==
    LET conn == find(root, datasource, IsConnection) IN
    IF conn = 0 THEN EmptyDict
    ELSE [class          |-> Get1(root[conn], "class"),
          server         |-> Get1(root[conn], "server"),
          dbname         |-> Get1(root[conn], "dbname"),
          schema         |-> Get1(root[conn], "schema"),
          username       |-> Get1(root[conn], "username"),
          authentication |-> Get1(root[conn], "authentication")]

IsNamedDatasource == TagWith("datasource", "name")

\* Variant: the reserved prefix is compared for equality.
IsInternalDatasource_exact(e) ==
    LET ds_name == Get1(e, "name") IN
    /\ Truthy(ds_name)
    /\ (ds_name = ReservedPrefix \/ ds_name = SampleFile)

IsInternalDatasource(e) ==
    LET ds_name == Get1(e, "name") IN
    /\ Truthy(ds_name)
    /\ (startswith(ds_name, ReservedPrefix) \/ ds_name = SampleFile)

\* The elements extract_datasources appends a record for, in loop order.
datasource_elems(root) ==
    SelectSeq(findall(root, 0, IsNamedDatasource),
              LAMBDA j : ~IsInternalDatasource(root[j]))

datasource_info(root, j) ==
    LET ds == root[j]
        ds_name == Get1(ds, "name") IN
    [name       |-> ds_name,
     caption    |-> Get(ds, "caption", ds_name),
     inline     |-> Get(ds, "inline", S("false")),
     connection |-> _extract_connection(root, j)]

extract_datasources(root) ==
    LET elems == datasource_elems(root) IN
    [i \in 1..Len(elems) |-> datasource_info(root, elems[i])]

IsCaptionedColumn == TagWith("column", "caption")

PassesCalculatedTest(root, j) ==
    LET calc_name == Get(root[j], "name", EmptyStr) IN
    StrIn(Calculated, calc_name) \/ find(root, j, IsCalculation) # 0

\* The elements extract_calculated_fields appends a record for.
calculated_field_elems(root) ==
    SelectSeq(findall(root, 0, IsCaptionedColumn),
              LAMBDA j : /\ PassesCalculatedTest(root, j)
                         /\ find(root, j, IsCalculation) # 0)

calculated_field_info(root, j) ==
    LET col == root[j]
        calc_name == Get(col, "name", EmptyStr)
        calculation == find(root, j, IsCalculation) IN
    [name          |-> Get(col, "caption", calc_name),
     internal_name |-> calc_name,
     formula       |-> Get(root[calculation], "formula", EmptyStr),
     datatype      |-> Get(col, "datatype", S("unknown")),
     role          |-> Get(col, "role", EmptyStr),
     type          |-> Get(col, "type", EmptyStr)]

extract_calculated_fields(root) ==
    LET elems == calculated_field_elems(root) IN
    [i \in 1..Len(elems) |-> calculated_field_info(root, elems[i])]

IsParameter == Tag("parameter")

\* Variant: the data type is stored under the name of its attribute.
parameter_info_type_key(root, j) ==
    LET param == root[j] IN
    [name     |-> Get(param, "name", EmptyStr),
     caption  |-> Get(param, "caption", Get(param, "name", EmptyStr)),
     type     |-> Get(param, "type", EmptyStr),
     value    |-> Get(param, "value", EmptyStr),
     alias    |-> Get(param, "alias", EmptyStr)]

parameter_info(root, j) ==
    LET param == root[j] IN
    [name     |-> Get(param, "name", EmptyStr),
     caption  |-> Get(param, "caption", Get(param, "name", EmptyStr)),
     datatype |-> Get(param, "type", EmptyStr),
     value    |-> Get(param, "value", EmptyStr),
     alias    |-> Get(param, "alias", EmptyStr)]

extract_parameters(root) ==
    LET elems == findall(root, 0, IsParameter) IN
    [i \in 1..Len(elems) |-> parameter_info(root, elems[i])]

IsFilter == Tag("filter")

filter_info(root, j) ==
    [column |-> Get(root[j], "column", EmptyStr),
     class  |-> Get(root[j], "class", EmptyStr),
     field  |-> Get(root[j], "field", EmptyStr)]

\* Variant: only a filter with a non-empty column is kept.
filter_elems_column_only(root) ==
    SelectSeq(findall(root, 0, IsFilter),
              LAMBDA j : filter_info(root, j).column # EmptyStr)

filter_elems(root) ==
    SelectSeq(findall(root, 0, IsFilter),
              LAMBDA j : \/ filter_info(root, j).column # EmptyStr
                         \/ filter_info(root, j).field # EmptyStr)

RECURSIVE Dedup(_)
Dedup(seq) ==
    IF seq = <<>> THEN <<>>
    ELSE LET front == Dedup(SubSeq(seq, 1, Len(seq) - 1))
             last == seq[Len(seq)]
         IN IF \E i \in 1..Len(front) : front[i] = last THEN front
            ELSE Append(front, last)

\* Variant: a filter equal to an earlier one is not appended again.
extract_filters_dedup(root) ==
    LET elems == filter_elems(root) IN
    Dedup([i \in 1..Len(elems) |-> filter_info(root, elems[i])])

extract_filters(root) ==
    LET elems == filter_elems(root) IN
    [i \in 1..Len(elems) |-> filter_info(root, elems[i])]

IsJoinRelation == TagEq("relation", "type", S("join"))
IsTableRelation == TagEq("relation", "type", S("table"))
IsJoinClause == TagEq("clause", "type", S("join"))

table_name(e) == Get(e, "table", Get(e, "name", EmptyStr))

\* Variant: relation.findall('relation[@type="table"]'), the children only.
_extract_join_tables_children(root, relation) ==
    LET nested_relations ==
            SelectSeq([j \in 1..Len(root) |-> j],
                      LAMBDA j : /\ root[j].parent = relation
                                 /\ Matches(root[j], IsTableRelation)) IN
    IF Len(nested_relations) >= 2
    THEN [left  |-> table_name(root[nested_relations[1]]),
          right |-> table_name(root[nested_relations[2]])]
    ELSE [left |-> EmptyStr, right |-> EmptyStr]

_extract_join_tables(root, relation) ==
    LET nested_relations == findall(root, relation, IsTableRelation) IN
    IF Len(nested_relations) >= 2
    THEN [left  |-> table_name(root[nested_relations[1]]),
          right |-> table_name(root[nested_relations[2]])]
    ELSE [left |-> EmptyStr, right |-> EmptyStr]

\* Variant: the expression attribute of the relation is read first.
_extract_join_clause_relation_first(root, relation) ==
    LET clause == find(root, relation, IsJoinClause) IN
    IF Has(root[relation], "expression") THEN root[relation].attrs["expression"]
    ELSE IF clause # 0 THEN Get(root[clause], "expression", EmptyStr)
    ELSE EmptyStr

_extract_join_clause(root, relation) ==
    LET clause == find(root, relation, IsJoinClause) IN
    IF clause # 0 THEN Get(root[clause], "expression", EmptyStr)
    ELSE Get(root[relation], "expression", EmptyStr)

wb_join_info(root, j) ==
    [join_type  |-> Get(root[j], "join", S("inner")),
     connection |-> Get(root[j], "connection", EmptyStr),
     tables     |-> _extract_join_tables(root, j),
     condition  |-> _extract_join_clause(root, j)]

wb_extract_joins(root) ==
    LET elems == findall(root, 0, IsJoinRelation) IN
    [i \in 1..Len(elems) |-> wb_join_info(root, elems[i])]

\* Path(xml_path).name, xml_path being the sequence of its components.
PathName(xml_path) == IF xml_path = <<>> THEN EmptyStr ELSE S(xml_path[Len(xml_path)])

wb_parse_to_dict(self, dashboard_name) ==
    [dashboard_name    |-> dashboard_name,
     type              |-> S("workbook"),
     datasources       |-> extract_datasources(self.root),
     calculated_fields |-> extract_calculated_fields(self.root),
     parameters        |-> extract_parameters(self.root),
     filters           |-> extract_filters(self.root),
     joins             |-> wb_extract_joins(self.root),
     metadata          |->
        [source_file      |-> PathName(self.xml_path),
         workbook_version |-> Get(self.top, "version", S("unknown"))]]

-----------------------------------------------------------------------------
(* parsers/prep_flow_parser.py *)

_extract_input_connection(root, node) ==
    LET conn == find(root, node, IsConnection) IN
    IF conn = 0 THEN EmptyDict
    ELSE [class  |-> Get(root[conn], "class", EmptyStr),
          server |-> Get(root[conn], "server", EmptyStr),
          dbname |-> Get(root[conn], "dbname", EmptyStr),
          schema |-> Get(root[conn], "schema", EmptyStr),
          table  |-> Get(root[conn], "table-name", EmptyStr)]

IsInputNode == TagEq("node", "type", S("input"))
IsOutputNode == TagEq("node", "type", S("output"))
IsJoinNode == TagEq("node", "type", S("join"))

input_info(root, j) ==
    [id         |-> Get(root[j], "id", EmptyStr),
     name       |-> Get(root[j], "name", EmptyStr),
     connection |-> _extract_input_connection(root, j)]

extract_input_sources(root) ==
    LET elems == findall(root, 0, IsInputNode) IN
    [i \in 1..Len(elems) |-> input_info(root, elems[i])]

IsNode == Tag("node")

\* `not node_type`: the attribute is missing (None) or the empty string.
HasNoType(e) == Get1(e, "type") = None \/ Get1(e, "type") = EmptyStr

\* node.findall('.//aggregations/field'): for each aggregations descendant
\* in document order, its field children in document order.
RECURSIVE Concat(_)
Concat(seqs) == IF seqs = <<>> THEN <<>> ELSE Head(seqs) \o Concat(Tail(seqs))

\* parent.findall('step'): the children of parent that match.
children(root, parent, step) ==
    SelectSeq([j \in 1..Len(root) |-> j],
              LAMBDA j : root[j].parent = parent /\ Matches(root[j], step))

aggregation_field_elems(root, node) ==
    LET parents == findall(root, node, Tag("aggregations")) IN
    Concat([i \in 1..Len(parents) |-> children(root, parents[i], Tag("field"))])

aggregation_info(e) ==
    [name         |-> Get(e, "name", EmptyStr),
     calculation  |-> Get(e, "calculation", EmptyStr),
     source_field |-> Get(e, "source-field", EmptyStr)]

_extract_aggregations(root, node) ==
    LET elems == aggregation_field_elems(root, node) IN
    [i \in 1..Len(elems) |-> aggregation_info(root[elems[i]])]

_extract_filter_condition(root, node) ==
    LET cond == find(root, node, Tag("condition")) IN
    IF cond = 0 THEN EmptyDict
    ELSE [field    |-> Get(root[cond], "field", EmptyStr),
          operator |-> Get(root[cond], "operator", EmptyStr),
          value    |-> Get(root[cond], "value", EmptyStr)]

_extract_clean_operation(root, node) ==
    LET op == find(root, node, Tag("operation")) IN
    IF op = 0 THEN EmptyDict
    ELSE [type  |-> Get(root[op], "type", EmptyStr),
          field |-> Get(root[op], "field", EmptyStr)]

\* The nodes extract_step_sequence numbers, in loop order.
step_elems(root) ==
    SelectSeq(findall(root, 0, IsNode), LAMBDA j : ~HasNoType(root[j]))

\* Variant: node.get('join-type', '') is stored on every step.
step_details_join_type_always(root, j) ==
    LET node_type == Get1(root[j], "type") IN
    [join_type |-> Get(root[j], "join-type", EmptyStr)] @@
    (IF node_type = S("aggregate")
        THEN [aggregations |-> _extract_aggregations(root, j)]
     ELSE IF node_type = S("filter")
        THEN [condition |-> _extract_filter_condition(root, j)]
     ELSE IF node_type = S("clean")
        THEN [operation |-> _extract_clean_operation(root, j)]
     ELSE <<>>)

step_details(root, j) ==
    LET node_type == Get1(root[j], "type") IN
    IF node_type = S("join")
        THEN [join_type |-> Get(root[j], "join-type", EmptyStr)]
    ELSE IF node_type = S("aggregate")
        THEN [aggregations |-> _extract_aggregations(root, j)]
    ELSE IF node_type = S("filter")
        THEN [condition |-> _extract_filter_condition(root, j)]
    ELSE IF node_type = S("clean")
        THEN [operation |-> _extract_clean_operation(root, j)]
    ELSE <<>>

\* step_info of node j when step_number has just been incremented to n.
step_info(root, j, n) ==
    step_details(root, j) @@
    [step_number  |-> n,
     type         |-> Get1(root[j], "type"),
     id           |-> Get(root[j], "id", EmptyStr),
     name         |-> Get(root[j], "name", EmptyStr),
     input_source |-> Get(root[j], "input", EmptyStr),
     description  |-> EmptyStr]

RECURSIVE step_loop(_, _, _, _)
\* The loop of extract_step_sequence over the remaining nodes, with the
\* steps appended so far and the current step_number.
step_loop(root, nodes, steps, step_number) ==
    IF nodes = <<>> THEN steps
    ELSE IF HasNoType(root[Head(nodes)])
        THEN step_loop(root, Tail(nodes), steps, step_number)
    ELSE step_loop(root, Tail(nodes),
                   Append(steps, step_info(root, Head(nodes), step_number + 1)),
                   step_number + 1)

\* Variant: step_number is the position among all node elements, so a
\* skipped node consumes a number.
extract_step_sequence_enumerated(root) ==
    LET nodes == findall(root, 0, IsNode)
        kept == SelectSeq([i \in 1..Len(nodes) |-> i],
                          LAMBDA i : ~HasNoType(root[nodes[i]]))
    IN [i \in 1..Len(kept) |-> step_info(root, nodes[kept[i]], kept[i])]

extract_step_sequence(root) == step_loop(root, findall(root, 0, IsNode), <<>>, 0)

join_input(e) ==
    [source |-> Get(e, "source", EmptyStr), alias |-> Get(e, "alias", EmptyStr)]

\* inputs[side] is assigned for every nested input element, side being
\* 'left' for index 0 and 'right' for every later index.
_extract_join_inputs(root, join_node) ==
    LET input_elements == findall(root, join_node, Tag("input"))
        n == Len(input_elements) IN
    IF n = 0 THEN EmptyDict
    ELSE IF n = 1 THEN [left |-> join_input(root[input_elements[1]])]
    ELSE [left  |-> join_input(root[input_elements[1]]),
          right |-> join_input(root[input_elements[n]])]

join_condition(clause) ==
    [left_field   |-> Get(clause, "left-field", EmptyStr),
     right_field  |-> Get(clause, "right-field", EmptyStr),
     operator     |-> Get(clause, "operator", S("=")),
     left_source  |-> Get(clause, "left-source", EmptyStr),
     right_source |-> Get(clause, "right-source", EmptyStr)]

_extract_join_conditions(root, join_node) ==
    LET elems == findall(root, join_node, Tag("join-clause")) IN
    [i \in 1..Len(elems) |-> join_condition(root[elems[i]])]

pf_join_info(root, j) ==
    [id         |-> Get(root[j], "id", EmptyStr),
     name       |-> Get(root[j], "name", EmptyStr),
     join_type  |-> Get(root[j], "join-type", S("inner")),
     inputs     |-> _extract_join_inputs(root, j),
     conditions |-> _extract_join_conditions(root, j)]

pf_extract_joins(root) ==
    LET elems == findall(root, 0, IsJoinNode) IN
    [i \in 1..Len(elems) |-> pf_join_info(root, elems[i])]

_extract_output_connection(root, node) ==
    LET conn == find(root, node, IsConnection) IN
    IF conn = 0 THEN EmptyDict
    ELSE [class  |-> Get(root[conn], "class", EmptyStr),
          dbname |-> Get(root[conn], "dbname", EmptyStr),
          schema |-> Get(root[conn], "schema", EmptyStr),
          table  |-> Get(root[conn], "table-name", EmptyStr)]

output_info(root, j) ==
    [id           |-> Get(root[j], "id", EmptyStr),
     name         |-> Get(root[j], "name", EmptyStr),
     input_source |-> Get(root[j], "input", EmptyStr),
     connection   |-> _extract_output_connection(root, j)]

extract_outputs(root) ==
    LET elems == findall(root, 0, IsOutputNode) IN
    [i \in 1..Len(elems) |-> output_info(root, elems[i])]

pf_parse_to_dict(self, flow_name) ==
    [flow_name     |-> flow_name,
     type          |-> S("prep_flow"),
     input_sources |-> extract_input_sources(self.root),
     steps         |-> extract_step_sequence(self.root),
     joins         |-> pf_extract_joins(self.root),
     outputs       |-> extract_outputs(self.root),
     metadata      |->
        [source_file  |-> PathName(self.xml_path),
         flow_version |-> Get(self.top, "version", S("unknown"))]]

-----------------------------------------------------------------------------
(* json.dump and json.load.  A JSON text is the tree of its values: null,   *)
(* a string, a number, an array or an object.  json.dump chooses by the      *)
(* type of the Python value, which a schema stands for here: a str or None,  *)
(* an int, a list or a dict with str keys.                                   *)

Str == [kind |-> "str"]
IntNumber == [kind |-> "int"]
ListOf(schema) == [kind |-> "list", of |-> schema]
DictOf(fields) == [kind |-> "dict", of |-> fields]
Strs(keys) == DictOf([k \in keys |-> Str])

RECURSIVE json_dump(_, _)
json_dump(obj, schema) ==
    CASE schema.kind = "str" ->
            IF obj = None THEN [json |-> "null"] ELSE [json |-> "string", value |-> obj]
      [] schema.kind = "int" -> [json |-> "number", value |-> obj]
      [] schema.kind = "list" ->
            [json |-> "array",
             items |-> [i \in DOMAIN obj |-> json_dump(obj[i], schema.of)]]
      [] schema.kind = "dict" ->
            [json |-> "object",
             members |-> [k \in DOMAIN obj |-> json_dump(obj[k], schema.of[k])]]

RECURSIVE json_load(_)
json_load(text) ==
    CASE text.json = "null" -> None
      [] text.json = "string" -> text.value
      [] text.json = "number" -> text.value
      [] text.json = "array" -> [i \in DOMAIN text.items |-> json_load(text.items[i])]
      [] text.json = "object" -> [k \in DOMAIN text.members |-> json_load(text.members[k])]

\* The types of the values of the two records.
WorkbookSchema ==
    DictOf([dashboard_name    |-> Str,
            type              |-> Str,
            datasources       |->
                ListOf(DictOf([name |-> Str, caption |-> Str, inline |-> Str,
                               connection |-> Strs({"class", "server", "dbname", "schema",
                                                    "username", "authentication"})])),
            calculated_fields |->
                ListOf(Strs({"name", "internal_name", "formula", "datatype", "role", "type"})),
            parameters        |-> ListOf(Strs({"name", "caption", "datatype", "value", "alias"})),
            filters           |-> ListOf(Strs({"column", "class", "field"})),
            joins             |->
                ListOf(DictOf([join_type |-> Str, connection |-> Str,
                               tables |-> Strs({"left", "right"}), condition |-> Str])),
            metadata          |-> Strs({"source_file", "workbook_version"})])

PrepFlowSchema ==
    DictOf([flow_name     |-> Str,
            type          |-> Str,
            input_sources |->
                ListOf(DictOf([id |-> Str, name |-> Str,
                               connection |-> Strs({"class", "server", "dbname", "schema",
                                                    "table"})])),
            steps         |->
                ListOf(DictOf([step_number |-> IntNumber, type |-> Str, id |-> Str,
                               name |-> Str, input_source |-> Str, description |-> Str,
                               join_type |-> Str,
                               aggregations |->
                                   ListOf(Strs({"name", "calculation", "source_field"})),
                               condition |-> Strs({"field", "operator", "value"}),
                               operation |-> Strs({"type", "field"})])),
            joins         |->
                ListOf(DictOf([id |-> Str, name |-> Str, join_type |-> Str,
                               inputs |-> DictOf([left  |-> Strs({"source", "alias"}),
                                                  right |-> Strs({"source", "alias"})]),
                               conditions |->
                                   ListOf(Strs({"left_field", "right_field", "operator",
                                                "left_source", "right_source"}))])),
            outputs       |->
                ListOf(DictOf([id |-> Str, name |-> Str, input_source |-> Str,
                               connection |-> Strs({"class", "dbname", "schema", "table"})])),
            metadata      |-> Strs({"source_file", "flow_version"})])

\* json.dump(data, f) of the two save_to_json methods
WorkbookJson(data) == json_dump(data, WorkbookSchema)
PrepFlowJson(data) == json_dump(data, PrepFlowSchema)

-----------------------------------------------------------------------------
(* pandas, re and os as core/context_manager.py uses them.  The characters *)
(* of the names and cells of this part are two letters in both cases ("a", *)
(* "A", "b", "B") and the pattern characters "." and "(".                  *)

\* A cell that is empty in the sheet.
NaN == <<"<NaN>">>

NameColumn == "Dashboard/Workflow Name"
DescriptionColumn == "Issue Description"

\* The file at issues_path: missing, not readable as a workbook, or a sheet.
\* A sheet, like the DataFrame read from it, is its column labels and its
\* rows in sheet order, each row a dict from the labels to the cells.
MissingFile == [exists |-> FALSE]
CorruptFile == [exists |-> TRUE, readable |-> FALSE]
ExcelFile(sheet) == [exists |-> TRUE, readable |-> TRUE, sheet |-> sheet]

\* pd.read_excel(path, engine='openpyxl')
read_excel(file) ==
    IF file.readable THEN Return(file.sheet) ELSE Raise("Exception")

\* str.lower of one character
lower(c) == IF c = "A" THEN "a" ELSE IF c = "B" THEN "b" ELSE c

\* re.compile(pat) raises re.error on a group that is opened and not closed
\* (no character of the model closes one).
re_error(pat) == \E k \in 1..Len(pat) : pat[k] = "("

\* One pattern character against one character under re.IGNORECASE: "."
\* matches every character (no cell holds a line break), a letter matches
\* itself in either case.
re_match_char(p, c) == p = "." \/ lower(p) = lower(c)

\* re.compile(pat, re.IGNORECASE).search(s) is not None
re_search(pat, s) ==
    \E i \in 0..(Len(s) - Len(pat)) :
        \A k \in 1..Len(pat) : re_match_char(pat[k], s[i + k])

\* One cell of Series.str.contains(pat, case=False, na=False): regex=True is
\* the default, so pat is a regular expression; an empty cell gives na.
str_contains(cell, pat) == cell # NaN /\ re_search(pat, cell)

\* The .str accessor exists on a column that holds strings; a column whose
\* cells are all empty is read as float64 and has none.
HasStrAccessor(cells) == \E i \in 1..Len(cells) : cells[i] # NaN

\* DataFrame.head(n): the first n rows, and all but the last -n rows when n
\* is negative.
head(rows, n) ==
    IF n >= 0 THEN SubSeq(rows, 1, IF n < Len(rows) THEN n ELSE Len(rows))
    ELSE SubSeq(rows, 1, IF Len(rows) + n > 0 THEN Len(rows) + n ELSE 0)

\* os.getenv(key, default), environ being the value of key or None
getenv(env, default) == IF env = None THEN default ELSE env

\* int(s) of a one-digit decimal string
int(s) == CHOOSE n \in 0..9 : S(ToString(n)) = s

\* str(n)
str(n) == S(ToString(n))

\* d.get(key, default) and d.get(key)
DictGet(d, key, default) == IF key \in DOMAIN d THEN d[key] ELSE default
DictGet1(d, key) == DictGet(d, key, None)

\* Variant: the key is in the dict.
HasItems_present(d, key) == key \in DOMAIN d

\* bool(d.get(key)) when d[key], if present, is a list
HasItems(d, key) == key \in DOMAIN d /\ d[key] # <<>>

\* The value v inside an f-string
Fmt(v) == IF v = None THEN S("None") ELSE IF v = NaN THEN S("nan") ELSE v

\* str.upper and str.title of the words that occur as join and step types
\* and as dashboard types.
upper_atom(a) ==
    CASE a = "inner" -> "INNER" [] a = "left" -> "LEFT" [] a = "right" -> "RIGHT"
      [] a = "full" -> "FULL" [] a = "input" -> "INPUT" [] a = "output" -> "OUTPUT"
      [] a = "join" -> "JOIN" [] a = "union" -> "UNION" [] a = "filter" -> "FILTER"
      [] a = "aggregate" -> "AGGREGATE" [] a = "clean" -> "CLEAN"
      [] OTHER -> a
upper(s) == [i \in 1..Len(s) |-> upper_atom(s[i])]

\* dashboard_type.replace('_', ' ').title()
replace_title(dashboard_type) ==
    IF dashboard_type = S("workbook") THEN S("Workbook")
    ELSE IF dashboard_type = S("prep_flow") THEN S("Prep Flow")
    ELSE dashboard_type

EmptyLine == EmptyStr

\* The backquote character (written as an apostrophe: a string of this
\* language cannot hold one).
Backquote == S("'")

\* A text is the sequence of its lines, so '' is one empty line and a text
\* that ends in a line break ends in an empty line.  a + b: the last line
\* of a continues into the first line of b.
glue(a, b) == SubSeq(a, 1, Len(a) - 1) \o <<a[Len(a)] \o b[1]>> \o Tail(b)

\* sep.join(parts)
RECURSIVE join(_, _)
join(sep, parts) ==
    IF parts = <<>> THEN <<EmptyLine>>
    ELSE IF Len(parts) = 1 THEN parts[1]
    ELSE glue(glue(parts[1], sep), join(sep, Tail(parts)))

\* "\n" and "\n\n---\n\n"
NewLine == <<EmptyLine, EmptyLine>>
Separator == <<EmptyLine, EmptyLine, S("---"), EmptyLine, EmptyLine>>

\* a or b, of strs and None
Or(a, b) == IF Truthy(a) THEN a ELSE b

-----------------------------------------------------------------------------
(* core/context_manager.py *)

\* load_historical_issues: the object after the call.
load_historical_issues(self, file) ==
    LET df == read_excel(file) IN
    [issues_df        |-> IF IsRaise(df) THEN NoneRecord ELSE df.value,
     read_excel_calls |-> self.read_excel_calls + 1]

\* ContextManager(metadata_dir, issues_path): the object constructed with
\* the given file at issues_path.
ContextManager(file) ==
    LET self == [issues_df |-> NoneRecord, read_excel_calls |-> 0] IN
    IF file.exists THEN load_historical_issues(self, file) ELSE self

\* load_dashboard_metadata: files[subdir] maps the dashboard names that have
\* a file to the file, which is readable as JSON or not.
load_dashboard_metadata(files, dashboard_name, dashboard_type) ==
    LET subdir == IF dashboard_type = S("workbook") THEN "workbooks"
                  ELSE "prep_flows"
        dir == files[subdir] IN
    IF dashboard_name \notin DOMAIN dir THEN NoneRecord
    ELSE IF dir[dashboard_name].readable THEN json_load(dir[dashboard_name].json)
    ELSE NoneRecord

DefaultMaxHistoricalIssues == S("5")

\* get_relevant_issues(**args): args holds dashboard_name, and limit unless
\* the call leaves it at its default None.
get_relevant_issues(self, env, args) ==
    LET df == self.issues_df IN
    IF df = NoneRecord \/ Len(df.rows) = 0 THEN Return(<<>>)
    ELSE
    LET limit == IF "limit" \in DOMAIN args THEN args.limit
                 ELSE int(getenv(env, DefaultMaxHistoricalIssues))
        cells == [i \in 1..Len(df.rows) |-> DictGet(df.rows[i], NameColumn, NaN)]
    IN  IF NameColumn \notin df.columns THEN Return(<<>>)
        ELSE IF ~HasStrAccessor(cells) THEN Raise("AttributeError")
        ELSE IF re_error(args.dashboard_name) THEN Raise("re.error")
        ELSE Return(head(SelectSeq(df.rows,
                            LAMBDA row : str_contains(row[NameColumn],
                                                      args.dashboard_name)),
                         limit))

MaxCalculatedFieldsShown == 10
MaxFiltersShown == 5

wb_datasource_line(ds) ==
    LET conn == DictGet(ds, "connection", EmptyDict)
        dbname == IF Truthy(DictGet1(conn, "dbname"))
                  THEN S(" - ") \o Fmt(conn.dbname) ELSE EmptyStr
        server == IF Truthy(DictGet1(conn, "server"))
                  THEN S(" @ ") \o Fmt(conn.server) ELSE EmptyStr
        conn_str == Fmt(DictGet(conn, "class", S("N/A"))) \o dbname \o server
    IN S("- **") \o Fmt(DictGet(ds, "caption", DictGet(ds, "name", S("Unknown"))))
       \o S("**: ") \o conn_str

wb_calculated_field_line(field) ==
    S("- **") \o Fmt(field.name) \o S("**: ") \o Backquote \o Fmt(field.formula) \o Backquote

\* Variant: the trailer is appended from ten fields on.
wb_calculated_fields_more_from_ten(fields) ==
    IF Len(fields) >= MaxCalculatedFieldsShown
    THEN << <<S("  _(... and ") \o str(Len(fields) - MaxCalculatedFieldsShown)
              \o S(" more)_")>> >>
    ELSE <<>>

\* The trailer section appended after the bullets, if any.
wb_calculated_fields_more(fields) ==
    IF Len(fields) > MaxCalculatedFieldsShown
    THEN << <<S("  _(... and ") \o str(Len(fields) - MaxCalculatedFieldsShown)
              \o S(" more)_")>> >>
    ELSE <<>>

wb_parameter_line(param) ==
    LET value_str == IF Truthy(DictGet1(param, "value"))
                     THEN S(" = ") \o Fmt(param.value) ELSE EmptyStr
    IN S("- **") \o Fmt(DictGet(param, "caption", param.name)) \o S("** (")
       \o Fmt(param.datatype) \o S(")") \o value_str

\* The one or two sections appended for a join.
wb_join_sections(j) ==
    LET tables == DictGet(j, "tables", EmptyDict)
        left == DictGet(tables, "left", S("Table1"))
        right == DictGet(tables, "right", S("Table2"))
    IN << <<S("- **") \o upper(j.join_type) \o S(" JOIN**: ") \o Fmt(left)
            \o S(" ↔ ") \o Fmt(right)>> >>
       \o (IF Truthy(DictGet1(j, "condition"))
           THEN << <<S("  - Condition: ") \o Backquote \o Fmt(j.condition) \o Backquote>> >>
           ELSE <<>>)

wb_filter_line(filt) ==
    LET col == Or(DictGet1(filt, "column"), DictGet1(filt, "field")) IN
    S("- ") \o Fmt(col) \o S(" (") \o Fmt(DictGet(filt, "class", S("unknown")))
    \o S(")")

\* Variant: metadata['filters'][-5:]
wb_filters_shown_last(filters) ==
    SubSeq(filters, IF Len(filters) < MaxFiltersShown THEN 1
                    ELSE Len(filters) - MaxFiltersShown + 1, Len(filters))

\* metadata['filters'][:5]
wb_filters_shown(filters) ==
    SubSeq(filters, 1, IF Len(filters) < MaxFiltersShown THEN Len(filters)
                       ELSE MaxFiltersShown)

\* d[key] raises KeyError for one of the keys.
LacksKey(d, keys) == \E key \in keys : key \notin DOMAIN d

\* The items of the list d[key] that a loop with direct indexing visits:
\* all of them, or the first `most`; none when d.get(key) is falsy.
Visited(d, key, most) ==
    IF ~HasItems(d, key) THEN <<>>
    ELSE SubSeq(d[key], 1, IF Len(d[key]) < most THEN Len(d[key]) ELSE most)

\* _format_workbook_metadata raises KeyError: a calculated field among the
\* first ten without name or formula, a parameter without name or datatype
\* (param['name'] is evaluated as the default of get('caption') whether or
\* not there is a caption), or a join without join_type.
wb_KeyError(metadata) ==
    \/ \E i \in 1..Len(Visited(metadata, "calculated_fields", MaxCalculatedFieldsShown)) :
          LacksKey(metadata.calculated_fields[i], {"name", "formula"})
    \/ HasItems(metadata, "parameters")
        /\ \E i \in 1..Len(metadata.parameters) :
              LacksKey(metadata.parameters[i], {"name", "datatype"})
    \/ HasItems(metadata, "joins")
        /\ \E i \in 1..Len(metadata.joins) :
              LacksKey(metadata.joins[i], {"join_type"})

_format_workbook_metadata(metadata) ==
    IF wb_KeyError(metadata) THEN Raise("KeyError") ELSE
    LET header == <<S("# Tableau Workbook: ")
                      \o Fmt(DictGet(metadata, "dashboard_name", S("Unknown"))),
                    EmptyLine>>
        datasources ==
            IF ~HasItems(metadata, "datasources") THEN <<>>
            ELSE << <<S("## Data Sources:")>> >>
                 \o [i \in 1..Len(metadata.datasources) |->
                        <<wb_datasource_line(metadata.datasources[i])>>]
        fields == metadata.calculated_fields
        shown == IF Len(fields) < MaxCalculatedFieldsShown THEN Len(fields)
                 ELSE MaxCalculatedFieldsShown
        calculated_fields ==
            IF ~HasItems(metadata, "calculated_fields") THEN <<>>
            ELSE << <<EmptyLine, S("## Calculated Fields:")>> >>
                 \o [i \in 1..shown |-> <<wb_calculated_field_line(fields[i])>>]
                 \o wb_calculated_fields_more(fields)
        parameters ==
            IF ~HasItems(metadata, "parameters") THEN <<>>
            ELSE << <<EmptyLine, S("## Parameters:")>> >>
                 \o [i \in 1..Len(metadata.parameters) |->
                        <<wb_parameter_line(metadata.parameters[i])>>]
        joins ==
            IF ~HasItems(metadata, "joins") THEN <<>>
            ELSE << <<EmptyLine, S("## Joins:")>> >>
                 \o Concat([i \in 1..Len(metadata.joins) |->
                               wb_join_sections(metadata.joins[i])])
        filters ==
            IF ~HasItems(metadata, "filters") THEN <<>>
            ELSE << <<EmptyLine, S("## Active Filters:")>> >>
                 \o [i \in 1..Len(wb_filters_shown(metadata.filters)) |->
                        <<wb_filter_line(wb_filters_shown(metadata.filters)[i])>>]
    IN Return(join(NewLine, <<header>> \o datasources \o calculated_fields
                            \o parameters \o joins \o filters))

pf_input_line(inp) ==
    LET conn == DictGet(inp, "connection", EmptyDict)
        table == DictGet(conn, "table", S("N/A"))
        table_info == IF Truthy(DictGet1(conn, "dbname"))
                      THEN Fmt(conn.dbname) \o S(".") \o Fmt(table)
                      ELSE Fmt(table)
    IN S("- **") \o Fmt(inp.name) \o S("**: ") \o table_info

pf_step_line(step) ==
    S(ToString(step.step_number)) \o S(". **") \o upper(step.type) \o S("**: ")
    \o Fmt(step.name)
    \o (IF Truthy(DictGet1(step, "join_type"))
        THEN S(" (") \o Fmt(step.join_type) \o S(" join)") ELSE EmptyStr)

pf_condition_line(cond) ==
    S("  - ON: ") \o Fmt(cond.left_field) \o S(" ") \o Fmt(cond.operator)
    \o S(" ") \o Fmt(cond.right_field)

\* Variant: only the first condition of a join is appended.
pf_join_sections_first_condition(j) ==
    LET inputs == DictGet(j, "inputs", EmptyDict)
        left_alias == DictGet(DictGet(inputs, "left", EmptyDict), "alias", S("Left"))
        right_alias == DictGet(DictGet(inputs, "right", EmptyDict), "alias", S("Right"))
        conditions == DictGet(j, "conditions", <<>>)
    IN << <<S("- **") \o Fmt(j.name) \o S("** (") \o Fmt(j.join_type) \o S("): ")
            \o Fmt(left_alias) \o S(" + ") \o Fmt(right_alias)>> >>
       \o [i \in 1..(IF conditions = <<>> THEN 0 ELSE 1) |->
              <<pf_condition_line(conditions[i])>>]

\* The sections appended for a join: its line, then one per condition.
pf_join_sections(j) ==
    LET inputs == DictGet(j, "inputs", EmptyDict)
        left_alias == DictGet(DictGet(inputs, "left", EmptyDict), "alias", S("Left"))
        right_alias == DictGet(DictGet(inputs, "right", EmptyDict), "alias", S("Right"))
        conditions == DictGet(j, "conditions", <<>>)
    IN << <<S("- **") \o Fmt(j.name) \o S("** (") \o Fmt(j.join_type) \o S("): ")
            \o Fmt(left_alias) \o S(" + ") \o Fmt(right_alias)>> >>
       \o [i \in 1..Len(conditions) |-> <<pf_condition_line(conditions[i])>>]

pf_output_line(out) ==
    LET conn == DictGet(out, "connection", EmptyDict)
        dest == DictGet(conn, "table", DictGet(conn, "dbname", S("Unknown")))
    IN S("- **") \o Fmt(out.name) \o S("** → ") \o Fmt(dest)

\* _format_prepflow_metadata raises KeyError: an input or output without
\* name, a step without step_number, type or name, a join without name or
\* join_type, or a join condition without one of its three fields.
pf_KeyError(metadata) ==
    \/ HasItems(metadata, "input_sources")
        /\ \E i \in 1..Len(metadata.input_sources) :
              LacksKey(metadata.input_sources[i], {"name"})
    \/ HasItems(metadata, "steps")
        /\ \E i \in 1..Len(metadata.steps) :
              LacksKey(metadata.steps[i], {"step_number", "type", "name"})
    \/ HasItems(metadata, "joins")
        /\ \E i \in 1..Len(metadata.joins) :
              \/ LacksKey(metadata.joins[i], {"name", "join_type"})
              \/ \E c \in 1..Len(DictGet(metadata.joins[i], "conditions", <<>>)) :
                    LacksKey(metadata.joins[i].conditions[c],
                             {"left_field", "operator", "right_field"})
    \/ HasItems(metadata, "outputs")
        /\ \E i \in 1..Len(metadata.outputs) :
              LacksKey(metadata.outputs[i], {"name"})

_format_prepflow_metadata(metadata) ==
    IF pf_KeyError(metadata) THEN Raise("KeyError") ELSE
    LET header == <<S("# Tableau Prep Flow: ")
                      \o Fmt(DictGet(metadata, "flow_name", S("Unknown"))),
                    EmptyLine>>
        input_sources ==
            IF ~HasItems(metadata, "input_sources") THEN <<>>
            ELSE << <<S("## Input Sources:")>> >>
                 \o [i \in 1..Len(metadata.input_sources) |->
                        <<pf_input_line(metadata.input_sources[i])>>]
        steps ==
            IF ~HasItems(metadata, "steps") THEN <<>>
            ELSE << <<EmptyLine, S("## Transformation Steps:")>> >>
                 \o [i \in 1..Len(metadata.steps) |->
                        <<pf_step_line(metadata.steps[i])>>]
        joins ==
            IF ~HasItems(metadata, "joins") THEN <<>>
            ELSE << <<EmptyLine, S("## Join Details:")>> >>
                 \o Concat([i \in 1..Len(metadata.joins) |->
                               pf_join_sections(metadata.joins[i])])
        outputs ==
            IF ~HasItems(metadata, "outputs") THEN <<>>
            ELSE << <<EmptyLine, S("## Output Destinations:")>> >>
                 \o [i \in 1..Len(metadata.outputs) |->
                        <<pf_output_line(metadata.outputs[i])>>]
    IN Return(join(NewLine, <<header>> \o input_sources \o steps \o joins \o outputs))

_format_metadata(metadata, dashboard_type) ==
    IF dashboard_type = S("workbook") THEN _format_workbook_metadata(metadata)
    ELSE _format_prepflow_metadata(metadata)

\* Variant: the resolution is appended before the root cause.
issue_sections_resolution_first(issue, i) ==
    << <<S("## Issue ") \o str(i) \o S(":")>>,
       <<S("**Description:** ") \o Fmt(DictGet(issue, DescriptionColumn, S("N/A")))>>,
       <<S("**Resolution:** ") \o Fmt(DictGet(issue, "Resolution", S("N/A")))>>,
       <<S("**Root Cause:** ") \o Fmt(DictGet(issue, "Root Cause", S("N/A")))>>,
       <<EmptyLine>> >>

\* The five sections appended for issue i of the list.
issue_sections(issue, i) ==
    << <<S("## Issue ") \o str(i) \o S(":")>>,
       <<S("**Description:** ") \o Fmt(DictGet(issue, DescriptionColumn, S("N/A")))>>,
       <<S("**Root Cause:** ") \o Fmt(DictGet(issue, "Root Cause", S("N/A")))>>,
       <<S("**Resolution:** ") \o Fmt(DictGet(issue, "Resolution", S("N/A")))>>,
       <<EmptyLine>> >>

_format_issues(issues) ==
    LET title == <<S("# Historical Issues & Resolutions"), EmptyLine>> IN
    IF issues = <<>>
    THEN join(NewLine, <<title, <<S("_No previous issues found for this dashboard._")>> >>)
    ELSE join(NewLine,
              <<title,
                <<S("_Found ") \o str(Len(issues)) \o S(" similar past issue(s):_"),
                  EmptyLine>> >>
              \o Concat([i \in 1..Len(issues) |-> issue_sections(issues[i], i)]))

NoMetadata(dashboard_name, dashboard_type) ==
    <<S("# ") \o replace_title(dashboard_type) \o S(": ") \o dashboard_name,
      EmptyLine,
      S("(No metadata available)")>>

NoIssues ==
    <<S("# Historical Issues"),
      EmptyLine,
      S("No previous issues found for this dashboard.")>>

\* The second entry of context_parts.
issues_section(issues) ==
    IF issues # <<>> THEN _format_issues(issues) ELSE NoIssues

\* Variant: the issues section is appended first.
build_context_summary_issues_first(self, files, env, dashboard_name, dashboard_type) ==
    LET metadata == load_dashboard_metadata(files, dashboard_name, dashboard_type)
        issues == get_relevant_issues(self, env, [dashboard_name |-> dashboard_name])
        metadata_part ==
            IF metadata # NoneRecord /\ metadata # EmptyDict
            THEN _format_metadata(metadata, dashboard_type)
            ELSE Return(NoMetadata(dashboard_name, dashboard_type))
    IN  IF IsRaise(issues) THEN issues
        ELSE IF IsRaise(metadata_part) THEN metadata_part
        ELSE Return(join(Separator,
                <<IF issues.value # <<>> THEN _format_issues(issues.value)
                  ELSE NoIssues,
                  metadata_part.value>>))

\* build_context_summary: an exception of get_relevant_issues, and then one
\* of _format_metadata, propagates.
build_context_summary(self, files, env, dashboard_name, dashboard_type) ==
    LET metadata == load_dashboard_metadata(files, dashboard_name, dashboard_type)
        issues == get_relevant_issues(self, env, [dashboard_name |-> dashboard_name])
        metadata_part ==
            IF metadata # NoneRecord /\ metadata # EmptyDict
            THEN _format_metadata(metadata, dashboard_type)
            ELSE Return(NoMetadata(dashboard_name, dashboard_type))
    IN  IF IsRaise(issues) THEN issues
        ELSE IF IsRaise(metadata_part) THEN metadata_part
        ELSE Return(join(Separator,
                <<metadata_part.value, issues_section(issues.value)>>))

-----------------------------------------------------------------------------
(* core/prompt_builder.py *)

DefaultMaxChatHistory == S("4")

\* seq[start:] of a list, for any integer start.
SliceFrom(seq, start) ==
    LET from == IF start < 0
                THEN (IF Len(seq) + start < 0 THEN 0 ELSE Len(seq) + start)
                ELSE (IF start > Len(seq) THEN Len(seq) ELSE start)
    IN SubSeq(seq, from + 1, Len(seq))

\* A content of more than 500 characters, its length and its first 497
\* characters; every other content is short.
LongContent == S("<a long message>")
StrLen(content) == IF content = LongContent THEN 501 ELSE 1
Prefix497(content) == IF content = LongContent THEN S("<a long mes") ELSE content

history_line(entry) ==
    LET role == IF entry.role = S("user") THEN S("User") ELSE S("Assistant")
        content == IF StrLen(entry.content) > 500
                   THEN Prefix497(entry.content) \o S("...")
                   ELSE entry.content
    IN <<EmptyLine, role \o S(": ") \o content>>

\* chat_history[-max_history:] if len(chat_history) > max_history else
\* chat_history
recent_history(chat_history, max_history) ==
    IF Len(chat_history) > max_history
    THEN SliceFrom(chat_history, -max_history)
    ELSE chat_history

_format_chat_history(env, chat_history) ==
    LET max_history == int(getenv(env, DefaultMaxChatHistory))
        recent == recent_history(chat_history, max_history)
    IN join(NewLine, << <<S("Previous Conversation:")>> >>
                     \o [i \in 1..Len(recent) |-> history_line(recent[i])])

-----------------------------------------------------------------------------
(* Documents *)

MaxElems == 3

RECURSIVE RightPath(_, _)
\* 0 and the open elements after the first n elements: the possible parents
\* of element n + 1 in document order.
RightPath(parents, n) ==
    IF n = 0 THEN {0} ELSE {n} \cup RightPath(parents, parents[n])

RECURSIVE ParentVectors(_)
ParentVectors(n) ==
    IF n = 0 THEN {<<>>}
    ELSE {Append(p, q) : <<p, q>> \in
            {<<p, q>> \in ParentVectors(n - 1) \X (0..(n - 1)) :
                q \in RightPath(p, n - 1)}}

El(tag, attrs) == [tag |-> tag, attrs |-> attrs]
NoAttrs == <<>>

Documents(shapes, n) ==
    {[j \in 1..n |-> [tag |-> sh[j].tag, parent |-> p[j], attrs |-> sh[j].attrs]] :
        <<sh, p>> \in [1..n -> shapes] \X ParentVectors(n)}

\* Element shapes, grouped by the extraction they exercise.
ReservedNameShapes ==
    {El("datasource", [name |-> S("Parameters")]),
     El("datasource", [name |-> <<"Parameters", "1">>]),
     El("datasource", [name |-> SampleFile]),
     El("datasource", [name |-> <<"Sample File", "1">>, caption |-> S("Orders")]),
     El("datasource", [caption |-> S("Orders")])}

ConnectionShapes ==
    {El("datasource", [name |-> S("Sales")]),
     El("datasource", [name |-> EmptyStr, inline |-> S("true")]),
     El("connection", [class |-> S("sqlserver"), server |-> S("srv"),
                       dbname |-> S("db"), schema |-> S("dbo"),
                       username |-> S("u"), authentication |-> S("sspi")]),
     El("connection", [class |-> S("excel")]),
     El("connection", NoAttrs)}

ColumnShapes ==
    {El("column", [caption |-> S("Profit"), name |-> <<"[", "Calculated", "_1]">>]),
     El("column", [caption |-> S("Sales"), name |-> S("[Sales]"),
                   datatype |-> S("real")]),
     El("column", [name |-> <<"[", "Calculated", "_2]">>]),
     El("calculation", [formula |-> S("SUM([Sales])")]),
     El("calculation", NoAttrs)}

RelationShapes ==
    {El("relation", [type |-> S("join"), join |-> S("left")]),
     El("relation", [type |-> S("join"), expression |-> S("[a] = [b]")]),
     El("relation", [type |-> S("table"), table |-> S("Orders"), name |-> S("o")]),
     El("relation", [type |-> S("table"), name |-> S("Customers")]),
     El("relation", [type |-> S("table")]),
     El("clause", [type |-> S("join"),
                   expression |-> S("[Orders].[CustomerID] = [Customers].[CustomerID]")])}

ParameterFilterShapes ==
    {El("parameter", [name |-> S("[P1]"), caption |-> S("Top N"),
                      type |-> S("integer"), value |-> S("10")]),
     El("parameter", [name |-> S("[P2]")]),
     El("parameter", NoAttrs),
     El("filter", [column |-> S("[Region]"), class |-> S("categorical")]),
     El("filter", [field |-> S("[Date]")]),
     El("filter", [class |-> S("quantitative"), column |-> EmptyStr])}

WorkbookShapes ==
    {ReservedNameShapes, ConnectionShapes, ColumnShapes, RelationShapes,
     ParameterFilterShapes}

StepShapes ==
    {El("node", [type |-> S("input"), id |-> S("7"), name |-> S("Orders")]),
     El("node", [type |-> S("join"), id |-> S("3")] @@ ("join-type" :> S("left"))),
     El("node", [id |-> S("1"), name |-> S("untyped")]),
     El("node", [type |-> EmptyStr, id |-> S("2")]),
     El("node", [type |-> S("union"), id |-> S("9")])}

AggregateShapes ==
    {El("node", [type |-> S("aggregate"), id |-> S("4")]),
     El("aggregations", NoAttrs),
     El("field", [name |-> S("Total"), calculation |-> S("SUM")]
                 @@ ("source-field" :> S("Sales"))),
     El("field", NoAttrs)}

FilterCleanShapes ==
    {El("node", [type |-> S("filter"), id |-> S("5")]),
     El("condition", [field |-> S("Region"), operator |-> S("=="), value |-> S("EU")]),
     El("node", [type |-> S("clean"), id |-> S("6")]),
     El("operation", [type |-> S("trim")]),
     El("node", [name |-> S("untyped")])}

JoinShapes ==
    {El("node", [type |-> S("join"), id |-> S("3"), name |-> S("J")]
                @@ ("join-type" :> S("left"))),
     El("node", [type |-> S("join")]),
     El("input", [source |-> S("1"), alias |-> S("L")]),
     El("input", [source |-> S("2")]),
     El("join-clause", ("left-field" :> S("id")) @@ ("right-field" :> S("cid"))),
     El("join-clause", [operator |-> S("<")] @@ ("left-source" :> S("1")))}

InOutShapes ==
    {El("node", [type |-> S("input"), id |-> S("1"), name |-> S("Orders")]),
     El("node", [type |-> S("output"), id |-> S("8"), name |-> S("Out"),
                 input |-> S("3")]),
     El("node", [type |-> S("output")]),
     El("connection", [class |-> S("postgres"), dbname |-> S("db")]
                      @@ ("table-name" :> S("t"))),
     El("connection", NoAttrs)}

PrepFlowShapes ==
    {StepShapes, AggregateShapes, FilterCleanShapes, JoinShapes, InOutShapes}

\* A join node and its nested input elements, up to MaxInputs of them.
MaxInputs == 3

InputShapes ==
    {El("input", [source |-> S("1"), alias |-> S("L")]),
     El("input", [source |-> S("2"), alias |-> S("R")]),
     El("input", [source |-> S("3")])}

JoinInputDocuments ==
    {<<[tag |-> "node", parent |-> 0,
        attrs |-> [type |-> S("join"), id |-> S("3"), name |-> S("J")]]>>
     \o [j \in 1..k |-> [tag |-> sh[j].tag, parent |-> 1, attrs |-> sh[j].attrs]] :
        <<k, sh>> \in {<<k, sh>> \in (0..MaxInputs) \X UNION {[1..i -> InputShapes] : i \in 0..MaxInputs} :
                          DOMAIN sh = 1..k}}

\* The root element's own attributes: a version attribute or none (the
\* version varies on the documents of at most one element).
Tops(n) ==
    {El("top", NoAttrs)} \cup (IF n <= 1 THEN {El("top", [version |-> S("18.1")])} ELSE {})

\* The file at xml_path: missing, not well-formed XML, or a document (the
\* root element's own attributes and the elements below it).
MissingXml == [exists |-> FALSE]
MalformedXml == [exists |-> TRUE, wellformed |-> FALSE]
XmlFile(top, root) == [exists |-> TRUE, wellformed |-> TRUE, top |-> top, root |-> root]

IsXmlFile(file, families) ==
    \E shapes \in families, n \in 0..MaxElems :
        \E d \in Documents(shapes, n), top \in Tops(n) :
            file = XmlFile(top, d)

\* Variant: a parse error leaves a parser with an empty tree.
WorkbookParser_lenient(xml_path, file) ==
    IF ~file.exists THEN Raise("FileNotFoundError")
    ELSE IF ~file.wellformed
        THEN [xml_path |-> xml_path, top |-> El("top", NoAttrs), root |-> <<>>]
    ELSE [xml_path |-> xml_path, top |-> file.top, root |-> file.root]

\* WorkbookParser(xml_path): the object, or the exception raised.
WorkbookParser(xml_path, file) ==
    IF ~file.exists THEN Raise("FileNotFoundError")
    ELSE IF ~file.wellformed THEN Raise("ValueError")
    ELSE [xml_path |-> xml_path, top |-> file.top, root |-> file.root]

\* PrepFlowParser(xml_path): the object, or the exception raised.
PrepFlowParser(xml_path, file) ==
    IF ~file.exists THEN Raise("FileNotFoundError")
    ELSE IF ~file.wellformed THEN Raise("ValueError")
    ELSE [xml_path |-> xml_path, top |-> file.top, root |-> file.root]

DashboardNames == {S("sales_dashboard")}
FlowNames == {S("customer_prep_flow")}

\* A parsed workbook and a parsed prep flow, as save_to_json writes them.
Elem(tag, parent, attrs) == [tag |-> tag, parent |-> parent, attrs |-> attrs]

SampleWorkbook ==
    [xml_path |-> <<"data", "sample_workbook.twb">>,
     top      |-> El("top", [version |-> S("18.1")]),
     root     |->
        <<Elem("datasource", 0, [name |-> S("Sales"), caption |-> S("Sales DB")]),
          Elem("connection", 1, [class |-> S("sqlserver"), server |-> S("srv"),
                                 dbname |-> S("db")]),
          Elem("column", 1, [caption |-> S("Profit"),
                             name |-> <<"[", "Calculated", "_1]">>]),
          Elem("calculation", 3, [formula |-> S("SUM([Sales])")]),
          Elem("relation", 1, [type |-> S("join"), join |-> S("left")]),
          Elem("relation", 5, [type |-> S("table"), table |-> S("Orders")]),
          Elem("relation", 5, [type |-> S("table"), name |-> S("Customers")]),
          Elem("clause", 5, [type |-> S("join"), expression |-> S("[a] = [b]")]),
          Elem("parameter", 0, [name |-> S("[P1]"), caption |-> S("Top N"),
                                type |-> S("integer"), value |-> S("10")]),
          Elem("filter", 0, [column |-> S("[Region]"),
                             class |-> S("categorical")]),
          Elem("datasource", 0, [name |-> S("Extract")])>>]

SamplePrepFlow ==
    [xml_path |-> <<"data", "sample_prepflow.tfl">>,
     top      |-> El("top", NoAttrs),
     root     |->
        <<Elem("node", 0, [type |-> S("input"), id |-> S("1"), name |-> S("Orders")]),
          Elem("connection", 1, [class |-> S("postgres"), dbname |-> S("db")]
                                @@ ("table-name" :> S("orders"))),
          Elem("node", 0, [type |-> S("input"), id |-> S("2"),
                           name |-> S("Customers")]),
          Elem("node", 0, [type |-> S("join"), id |-> S("3"), name |-> S("J")]
                          @@ ("join-type" :> S("left"))),
          Elem("input", 4, [source |-> S("1"), alias |-> S("L")]),
          Elem("input", 4, [source |-> S("2")]),
          Elem("join-clause", 4, ("left-field" :> S("id"))
                                 @@ ("right-field" :> S("cid"))),
          Elem("node", 0, [type |-> S("output"), id |-> S("8"), name |-> S("Out"),
                           input |-> S("3")])>>]

\* A file below metadata_dir: readable as JSON, or not.
JsonFile(json) == [readable |-> TRUE, json |-> json]
UnreadableFile == [readable |-> FALSE]
NoFiles == <<>>

MaxCalculatedFields == 13

\* The workbook of n calculated fields F1..Fn: n captioned columns, each with
\* its calculation nested in it.
WorkbookWithFields(n) ==
    [xml_path |-> <<"data", "fields.twb">>,
     top      |-> El("top", NoAttrs),
     root     |->
        [j \in 1..(2 * n) |->
            IF j % 2 = 1
            THEN Elem("column", 0, [caption |-> <<"F", ToString((j + 1) \div 2)>>,
                                    name |-> <<"[", "Calculated", ToString((j + 1) \div 2), "]">>])
            ELSE Elem("calculation", j - 1,
                      [formula |-> <<"SUM(", ToString(j \div 2), ")">>])]]

FieldStores ==
    {[workbooks  |-> (<<"a">> :> JsonFile(WorkbookJson(wb_parse_to_dict(WorkbookWithFields(n), <<"a">>)))),
      prep_flows |-> NoFiles] : n \in 1..MaxCalculatedFields}

\* Stores whose records lack collections, or fields of their elements.
PartialStores ==
    {[workbooks  |-> (<<"a">> :> JsonFile(WorkbookJson([dashboard_name |-> <<"a">>,
                                           type |-> S("workbook")]))),
      prep_flows |-> (<<"a">> :> JsonFile(PrepFlowJson([type |-> S("prep_flow")])))],
     [workbooks  |-> (<<"a">> :> JsonFile(WorkbookJson([dashboard_name |-> <<"a">>,
                                           datasources |-> <<EmptyDict>>,
                                           filters |-> <<EmptyDict>>]))),
      prep_flows |-> (<<"a">> :> JsonFile(PrepFlowJson([flow_name |-> <<"a">>,
                                           outputs |-> <<[name |-> S("Out")]>>,
                                           joins |-> <<[name |-> S("J"),
                                                        join_type |-> S("left")]>>])))],
     [workbooks  |-> (<<"a">> :> JsonFile(WorkbookJson([dashboard_name |-> <<"a">>,
                                           calculated_fields |-> <<[name |-> S("Profit")]>>]))),
      prep_flows |-> (<<"a">> :> JsonFile(PrepFlowJson([flow_name |-> <<"a">>,
                                           steps |-> <<[step_number |-> 1,
                                                        type |-> S("input")]>>])))]}

\* The files below metadata_dir, by subdirectory and dashboard name.
MetadataStores ==
    FieldStores \cup PartialStores \cup
    {[workbooks |-> NoFiles, prep_flows |-> NoFiles],
     [workbooks  |-> (<<"a">> :> JsonFile(WorkbookJson(wb_parse_to_dict(SampleWorkbook, <<"a">>)))),
      prep_flows |-> (<<"a">> :> JsonFile(PrepFlowJson(pf_parse_to_dict(SamplePrepFlow, <<"a">>))))],
     [workbooks  |-> (<<"a">> :> UnreadableFile),
      prep_flows |-> (<<"a", "b">> :> JsonFile(PrepFlowJson(pf_parse_to_dict(SamplePrepFlow, <<"a", "b">>))))],
     [workbooks  |-> (<<"a">> :> JsonFile(WorkbookJson(EmptyDict))),
      prep_flows |-> (<<"a">> :> UnreadableFile)]}

\* Workbook records for the formatter: every collection absent, empty or
\* with items, and up to MaxFilters filters.
MaxFilters == 6

Absent == <<>>

FilterRecord(i) ==
    IF i % 2 = 1
    THEN [column |-> <<"[", "Column", ToString(i), "]">>, class |-> S("categorical"),
          field |-> EmptyStr]
    ELSE [column |-> EmptyStr, class |-> EmptyStr,
          field |-> <<"[", "Field", ToString(i), "]">>]

WorkbookRecords ==
    {[dashboard_name |-> S("a"), type |-> S("workbook")] @@ ds @@ cf @@ pa @@ jo @@ fi :
        ds \in {Absent, [datasources |-> <<>>],
                [datasources |-> <<[name |-> S("Sales"), caption |-> EmptyStr,
                                    connection |-> [class |-> S("excel")]]>>]},
        cf \in {Absent, [calculated_fields |-> <<>>],
                [calculated_fields |-> <<[name |-> S("Profit"), formula |-> S("SUM([Sales])"),
                                          datatype |-> S("real")]>>]},
        pa \in {Absent, [parameters |-> <<>>],
                [parameters |-> <<[name |-> S("[P1]"), caption |-> S("Top N"),
                                   datatype |-> S("integer"), value |-> S("10")]>>]},
        jo \in {Absent, [joins |-> <<>>],
                [joins |-> <<[join_type |-> S("left"), connection |-> EmptyStr,
                              tables |-> [left |-> S("Orders"), right |-> S("Customers")],
                              condition |-> S("[a] = [b]")]>>]},
        fi \in {Absent} \cup {[filters |-> [i \in 1..n |-> FilterRecord(i)]] : n \in 0..MaxFilters}}

\* Prep-flow records for the formatter: every collection absent, empty or
\* with items, up to MaxSteps steps and up to MaxConditions conditions of a
\* join.
MaxSteps == 11
MaxConditions == 3

StepRecord(i) ==
    [step_number |-> i, id |-> S(ToString(i)), name |-> <<"Step", ToString(i)>>,
     input_source |-> EmptyStr, description |-> EmptyStr]
    @@ (IF i % 3 = 0 THEN [type |-> S("join"), join_type |-> S("left")]
        ELSE [type |-> S("clean"), operation |-> EmptyDict])

ConditionRecord(i) ==
    [left_field |-> <<"l", ToString(i)>>, right_field |-> <<"r", ToString(i)>>,
     operator |-> S("="), left_source |-> EmptyStr, right_source |-> EmptyStr]

JoinRecord(name, k) ==
    [id |-> S("3"), name |-> name, join_type |-> S("inner"),
     inputs |-> [left |-> [source |-> S("1"), alias |-> S("L")]],
     conditions |-> [i \in 1..k |-> ConditionRecord(i)]]

PrepFlowRecords ==
    {[flow_name |-> S("a"), type |-> S("prep_flow")] @@ ins @@ st @@ jo @@ out :
        ins \in {Absent, [input_sources |-> <<>>],
                 [input_sources |-> <<[id |-> S("1"), name |-> S("Orders"),
                                       connection |-> EmptyDict]>>]},
        st \in {Absent} \cup {[steps |-> [i \in 1..n |-> StepRecord(i)]] : n \in 0..MaxSteps},
        jo \in {Absent, [joins |-> <<>>],
                [joins |-> <<JoinRecord(S("J"), 1), JoinRecord(S("K"), 2)>>]}
               \cup {[joins |-> <<JoinRecord(S("J"), k)>>] : k \in 0..MaxConditions},
        out \in {Absent, [outputs |-> <<>>],
                 [outputs |-> <<[id |-> S("8"), name |-> S("Out"),
                                 connection |-> [class |-> S("postgres")]]>>]}}

\* Issue lists for the formatter: up to MaxIssues rows, each with its three
\* cells, with an empty cell (NaN) or without the two later columns.
MaxIssues == 4

IssueShapes == {"full", "nan", "partial"}

IssueRecord(i, shape) ==
    (DescriptionColumn :> <<"issue ", ToString(i)>>)
    @@ (IF shape = "partial" THEN <<>>
        ELSE ("Root Cause" :> (IF shape = "nan" THEN NaN ELSE <<"cause ", ToString(i)>>))
             @@ ("Resolution" :> <<"fix ", ToString(i)>>))

IssueLists ==
    {[i \in 1..n |-> IssueRecord(i, shapes[i])] :
        <<n, shapes>> \in {<<n, shapes>> \in (0..MaxIssues) \X
                              UNION {[1..k -> IssueShapes] : k \in 0..MaxIssues} :
                            DOMAIN shapes = 1..n}}

\* Chat histories of up to MaxHistory entries, of either role, the first
\* content a long one; MAX_CHAT_HISTORY unset or a digit.
MaxHistory == 5

Roles == {S("user"), S("assistant")}

ChatHistories ==
    {[i \in 1..n |-> [role |-> roles[i],
                     content |-> IF i = 1 THEN LongContent ELSE <<"message ", ToString(i)>>]] :
        <<n, roles>> \in {<<n, roles>> \in (0..MaxHistory) \X
                              UNION {[1..k -> Roles] : k \in 0..MaxHistory} :
                          DOMAIN roles = 1..n}}

ChatEnvironments == {None, S("0"), S("1"), S("2")}

MaxRows == 3

\* The cells of the dashboard-name column.
NameCells == {NaN, <<"a", "b">>, S("A")}

\* The sheet with the given cells in its dashboard-name column, or without
\* that column; the description tells the rows apart.
Sheet(has_name_column, cells) ==
    [columns |-> (IF has_name_column THEN {NameColumn} ELSE {}) \cup {DescriptionColumn},
     rows    |-> [i \in 1..Len(cells) |->
                    (IF has_name_column THEN NameColumn :> cells[i] ELSE <<>>)
                    @@ (DescriptionColumn :> <<"issue ", ToString(i)>>)]]

IssueFiles ==
    {MissingFile, CorruptFile}
    \cup {ExcelFile(Sheet(TRUE, cells)) :
            cells \in UNION {[1..n -> NameCells] : n \in 0..MaxRows}}
    \cup {ExcelFile(Sheet(FALSE, [i \in 1..n |-> NaN])) : n \in 0..MaxRows}

\* The exports the summaries are built over: missing, unreadable, empty,
\* without the dashboard-name column, with empty cells only, and with three
\* rows.
SampleIssueFiles ==
    {MissingFile, CorruptFile,
     ExcelFile(Sheet(TRUE, <<>>)),
     ExcelFile(Sheet(FALSE, <<NaN>>)),
     ExcelFile(Sheet(TRUE, <<NaN>>)),
     ExcelFile(Sheet(TRUE, <<<<"a", "b">>, NaN, S("A")>>))}

Environments == {None, S("1")}

QueryNames == {EmptyStr, S("a"), <<"A", "B">>, <<"a", ".">>, S("(")}

Limits == (-1)..MaxRows

DashboardTypes == {S("workbook"), S("prep_flow")}

-----------------------------------------------------------------------------
(* Extraction: a parser constructed on the file at xml_path, then           *)
(* parse_to_dict and save_to_json on the object, if there is one.            *)

NoContext ==
    /\ issues_file = NotCalled
    /\ metadata_files = [workbooks |-> NoFiles, prep_flows |-> NoFiles]
    /\ environ = NotCalled
    /\ cm = NotCalled
    /\ call = NotCalled

InitWorkbook ==
    /\ \/ xml_file \in {MissingXml, MalformedXml}
       \/ IsXmlFile(xml_file, WorkbookShapes)
    /\ wb = WorkbookParser(<<"data", "sample_workbook.twb">>, xml_file)
    /\ wbOut = NotCalled
    /\ pf = NotCalled
    /\ pfOut = NotCalled
    /\ NoContext
    /\ NoSession

InitPrepFlow ==
    /\ \/ xml_file \in {MissingXml, MalformedXml}
       \/ IsXmlFile(xml_file, PrepFlowShapes)
       \/ \E d \in JoinInputDocuments : xml_file = XmlFile(El("top", NoAttrs), d)
    /\ pf = PrepFlowParser(<<"data", "sample_prepflow.tfl">>, xml_file)
    /\ pfOut = NotCalled
    /\ wb = NotCalled
    /\ wbOut = NotCalled
    /\ NoContext
    /\ NoSession

InitParsers == InitWorkbook \/ InitPrepFlow

\* The constructor returned an object.
IsObject(self) == self # NotCalled /\ ~IsRaise(self)

WorkbookParseToDict ==
    /\ IsObject(wb)
    /\ wbOut = NotCalled
    /\ \E dashboard_name \in DashboardNames :
          wbOut' = wb_parse_to_dict(wb, dashboard_name)
    /\ UNCHANGED <<xml_file, wb, pf, pfOut, contextVars, uiVars>>

PrepFlowParseToDict ==
    /\ IsObject(pf)
    /\ pfOut = NotCalled
    /\ \E flow_name \in FlowNames :
          pfOut' = pf_parse_to_dict(pf, flow_name)
    /\ UNCHANGED <<xml_file, pf, wb, wbOut, contextVars, uiVars>>

\* save_to_json(metadata_dir / 'workbooks' / f"{dashboard_name}.json",
\* dashboard_name), on a name that has no file yet.
WorkbookSaveToJson ==
    /\ IsObject(wb)
    /\ \E dashboard_name \in DashboardNames :
          /\ dashboard_name \notin DOMAIN metadata_files.workbooks
          /\ metadata_files' =
                [metadata_files EXCEPT !.workbooks =
                    (dashboard_name :> JsonFile(WorkbookJson(wb_parse_to_dict(wb, dashboard_name))))
                    @@ @]
    /\ UNCHANGED <<parserVars, issues_file, environ, cm, call, uiVars>>

PrepFlowSaveToJson ==
    /\ IsObject(pf)
    /\ \E flow_name \in FlowNames :
          /\ flow_name \notin DOMAIN metadata_files.prep_flows
          /\ metadata_files' =
                [metadata_files EXCEPT !.prep_flows =
                    (flow_name :> JsonFile(PrepFlowJson(pf_parse_to_dict(pf, flow_name))))
                    @@ @]
    /\ UNCHANGED <<parserVars, issues_file, environ, cm, call, uiVars>>

NextParsers ==
    \/ WorkbookParseToDict
    \/ PrepFlowParseToDict
    \/ WorkbookSaveToJson
    \/ PrepFlowSaveToJson

SpecParsers == InitParsers /\ [][NextParsers]_vars

-----------------------------------------------------------------------------
(* A ContextManager constructed on the files on disk, then any sequence of   *)
(* calls: of get_relevant_issues over every export (SpecIssues), and of      *)
(* get_relevant_issues and build_context_summary over the metadata stores    *)
(* (SpecContext).                                                            *)

NoParsers ==
    /\ xml_file = NotCalled
    /\ wb = NotCalled
    /\ wbOut = NotCalled
    /\ pf = NotCalled
    /\ pfOut = NotCalled

InitIssues ==
    /\ issues_file \in IssueFiles
    /\ metadata_files = [workbooks |-> NoFiles, prep_flows |-> NoFiles]
    /\ environ \in Environments
    /\ cm = ContextManager(issues_file)
    /\ call = NotCalled
    /\ NoParsers
    /\ NoSession

InitContext ==
    /\ issues_file \in SampleIssueFiles
    /\ metadata_files \in MetadataStores
    /\ environ \in Environments
    /\ cm = ContextManager(issues_file)
    /\ call = NotCalled
    /\ NoParsers
    /\ NoSession

GetRelevantIssues ==
    /\ cm # NotCalled
    /\ \E dashboard_name \in QueryNames :
         \E args \in {[dashboard_name |-> dashboard_name]}
                     \cup {[dashboard_name |-> dashboard_name, limit |-> limit] :
                             limit \in Limits} :
            call' = [op     |-> "get_relevant_issues",
                     args   |-> args,
                     result |-> get_relevant_issues(cm, environ, args)]
    /\ UNCHANGED <<issues_file, metadata_files, environ, cm, parserVars, uiVars>>

\* Variant: a summary releases the DataFrame once it has read the issues.
BuildContextSummary_releasing ==
    /\ cm # NotCalled
    /\ \E dashboard_name \in QueryNames, dashboard_type \in DashboardTypes :
            call' = [op     |-> "build_context_summary",
                     args   |-> [dashboard_name |-> dashboard_name,
                                 dashboard_type |-> dashboard_type],
                     result |-> build_context_summary(cm, metadata_files, environ,
                                                      dashboard_name, dashboard_type)]
    /\ cm' = [cm EXCEPT !.issues_df = NoneRecord]
    /\ UNCHANGED <<issues_file, metadata_files, environ, parserVars, uiVars>>

BuildContextSummary ==
    /\ cm # NotCalled
    /\ \E dashboard_name \in QueryNames, dashboard_type \in DashboardTypes :
            call' = [op     |-> "build_context_summary",
                     args   |-> [dashboard_name |-> dashboard_name,
                                 dashboard_type |-> dashboard_type],
                     result |-> build_context_summary(cm, metadata_files, environ,
                                                      dashboard_name, dashboard_type)]
    /\ UNCHANGED <<issues_file, metadata_files, environ, cm, parserVars, uiVars>>

NextIssues == GetRelevantIssues

SpecIssues == InitIssues /\ [][NextIssues]_vars

NextContext == GetRelevantIssues \/ BuildContextSummary

SpecContext == InitContext /\ [][NextContext]_vars

-----------------------------------------------------------------------------
(* The formatters, each applied to the records and lists it can be given.   *)

InitFormatters ==
    /\ issues_file = NotCalled
    /\ metadata_files = NotCalled
    /\ environ = NotCalled
    /\ cm = NotCalled
    /\ call = NotCalled
    /\ NoParsers
    /\ NoSession

FormatWorkbookMetadata ==
    /\ \E metadata \in WorkbookRecords :
          call' = [op     |-> "_format_workbook_metadata",
                   args   |-> [metadata |-> metadata],
                   result |-> _format_workbook_metadata(metadata)]
    /\ UNCHANGED <<issues_file, metadata_files, environ, cm, parserVars, uiVars>>

FormatPrepflowMetadata ==
    /\ \E metadata \in PrepFlowRecords :
          call' = [op     |-> "_format_prepflow_metadata",
                   args   |-> [metadata |-> metadata],
                   result |-> _format_prepflow_metadata(metadata)]
    /\ UNCHANGED <<issues_file, metadata_files, environ, cm, parserVars, uiVars>>

\* _format_issues on a list, as a caller can apply it.
FormatIssues ==
    /\ \E issues \in IssueLists :
          call' = [op     |-> "_format_issues",
                   args   |-> [issues |-> issues],
                   result |-> Return(_format_issues(issues))]
    /\ UNCHANGED <<issues_file, metadata_files, environ, cm, parserVars, uiVars>>

\* The issues section as build_context_summary renders it.
IssuesSection ==
    /\ \E issues \in IssueLists :
          call' = [op     |-> "issues_section",
                   args   |-> [issues |-> issues],
                   result |-> Return(issues_section(issues))]
    /\ UNCHANGED <<issues_file, metadata_files, environ, cm, parserVars, uiVars>>

NextFormatters ==
    \/ FormatWorkbookMetadata
    \/ FormatPrepflowMetadata
    \/ FormatIssues
    \/ IssuesSection

SpecFormatters == InitFormatters /\ [][NextFormatters]_vars

-----------------------------------------------------------------------------
(* PromptBuilder._format_chat_history under each setting of                 *)
(* MAX_CHAT_HISTORY.                                                         *)

InitPrompt ==
    /\ environ \in ChatEnvironments
    /\ issues_file = NotCalled
    /\ metadata_files = NotCalled
    /\ cm = NotCalled
    /\ call = NotCalled
    /\ NoParsers
    /\ NoSession

FormatChatHistory ==
    /\ \E chat_history \in ChatHistories :
          call' = [op     |-> "_format_chat_history",
                   args   |-> [chat_history |-> chat_history],
                   result |-> Return(_format_chat_history(environ, chat_history))]
    /\ UNCHANGED <<issues_file, metadata_files, environ, cm, parserVars, uiVars>>

NextPrompt == FormatChatHistory

SpecPrompt == InitPrompt /\ [][NextPrompt]_vars

-----------------------------------------------------------------------------
(* ui/app.py: the chat page. Streamlit runs main() from the top once per    *)
(* widget event, on the st.session_state left by the run before; a run that *)
(* ends in st.rerun() is followed by a run without an event, which changes  *)
(* nothing. The widgets a user can act on are those the last run rendered.  *)

\* SETTINGS['ENABLE_FEEDBACK']
ENABLE_FEEDBACK == TRUE

\* The 'dashboards' list of config/dashboard_registry.json: two entries
\* share a name and differ in type.
Registry ==
    << [display_name |-> S("Sales"),      name |-> S("sales"), type |-> S("workbook")],
       [display_name |-> S("Sales Prep"), name |-> S("sales"), type |-> S("prep_flow")],
       [display_name |-> S("Ops"),        name |-> S("ops"),   type |-> S("workbook")] >>

\* {d['display_name']: d for d in dashboards}: the last entry of a display
\* name is the one kept
dashboard_options(dashboards) ==
    [display_name \in {dashboards[i].display_name : i \in DOMAIN dashboards} |->
        LET last == CHOOSE i \in DOMAIN dashboards :
                       /\ dashboards[i].display_name = display_name
                       /\ \A j \in DOMAIN dashboards :
                             dashboards[j].display_name = display_name => j <= i
        IN  dashboards[last]]

\* st.session_state after the initialisation at the top of the script
InitialSessionState ==
    [chat_history            |-> <<>>,
     selected_dashboard      |-> None,
     selected_dashboard_type |-> None,
     show_feedback_form      |-> EmptyDict]

\* The condition of the dashboard change handling, as a variant that compares
\* the name alone.
dashboard_changed_name_only(state, selected_dashboard) ==
    state.selected_dashboard # selected_dashboard.name

dashboard_changed(state, selected_dashboard) ==
    \/ state.selected_dashboard # selected_dashboard.name
    \/ state.selected_dashboard_type # selected_dashboard.type

\* The sidebar: the dashboard change handling
select_dashboard(state, selected_dashboard) ==
    IF dashboard_changed(state, selected_dashboard)
    THEN [state EXCEPT !.selected_dashboard      = selected_dashboard.name,
                       !.selected_dashboard_type = selected_dashboard.type,
                       !.chat_history            = <<>>,
                       !.show_feedback_form      = EmptyDict]
    ELSE state

\* f"feedback_{idx}"
feedback_key(idx) == S("feedback_") \o str(idx)

\* d[key] = value on a dict
SetItem(d, key, value) ==
    [k \in DOMAIN d \cup {key} |-> IF k = key THEN value ELSE d[k]]

\* Python chat_history[idx], idx counted from 0
EntryAt(chat_history, idx) == chat_history[idx + 1]

\* The feedback widget is shown for the assistant messages.
has_feedback_widget(state, idx) ==
    /\ EntryAt(state.chat_history, idx).role = S("assistant")
    /\ ENABLE_FEEDBACK

\* The Yes/No buttons, as a variant that offers them until the feedback is
\* submitted.
yes_no_offered_until_submitted(state, idx) ==
    /\ has_feedback_widget(state, idx)
    /\ DictGet1(state.show_feedback_form, feedback_key(idx)) # S("submitted")

\* The Yes and No buttons of message idx are rendered.
yes_no_offered(state, idx) ==
    /\ has_feedback_widget(state, idx)
    /\ feedback_key(idx) \notin DOMAIN state.show_feedback_form

\* The comment box and the Submit Feedback button of message idx are rendered.
form_offered(state, idx) ==
    /\ has_feedback_widget(state, idx)
    /\ DictGet1(state.show_feedback_form, feedback_key(idx)) = S("show")

\* The query logged with the feedback on message idx, as a variant that takes
\* the first entry of the history.
feedback_user_query_first(chat_history, idx) ==
    IF idx > 0 THEN EntryAt(chat_history, 0).content ELSE EmptyStr

\* chat_history[idx - 1]['content'] if idx > 0 else ""
feedback_user_query(chat_history, idx) ==
    IF idx > 0 THEN EntryAt(chat_history, idx - 1).content ELSE EmptyStr

\* FeedbackLogger.log_feedback: one row appended to the feedback table (the
\* id is the position of the row; timestamp, user and session_id are left
\* out)
log_feedback(rows, dashboard, query, response, resolved, comments) ==
    Append(rows, [dashboard          |-> dashboard,
                  user_query         |-> query,
                  assistant_response |-> response,
                  resolved           |-> resolved,
                  comments           |-> comments])

\* The click on Yes of message idx
click_yes(state, rows, idx) ==
    [rows  |-> log_feedback(rows, state.selected_dashboard,
                            feedback_user_query(state.chat_history, idx),
                            EntryAt(state.chat_history, idx).content,
                            TRUE, None),
     state |-> [state EXCEPT !.show_feedback_form =
                    SetItem(@, feedback_key(idx), S("submitted"))]]

\* The click on No of message idx
click_no(state, idx) ==
    [state EXCEPT !.show_feedback_form = SetItem(@, feedback_key(idx), S("show"))]

\* The click on Submit Feedback of message idx
click_submit(state, rows, idx, feedback_comment) ==
    [rows  |-> log_feedback(rows, state.selected_dashboard,
                            feedback_user_query(state.chat_history, idx),
                            EntryAt(state.chat_history, idx).content,
                            FALSE, feedback_comment),
     state |-> [state EXCEPT !.show_feedback_form =
                    SetItem(@, feedback_key(idx), S("submitted"))]]

\* The context, the prompt and the response are each identified by what they
\* were built from: the context by the dashboard name and type, the prompt
\* by the context and the query, the response by the prompt.
context_of(dashboard_name, dashboard_type) ==
    S("<context of>") \o dashboard_name \o dashboard_type

prompt_of(context, user_query) == context \o user_query

generate(prompt) == S("<response to>") \o prompt

\* The chat input: the query is appended, and the response when no step of
\* the generation raised.
chat_input(state, user_query, raised) ==
    LET asked    == [state EXCEPT !.chat_history =
                        Append(@, [role |-> S("user"), content |-> user_query])]
        context  == context_of(asked.selected_dashboard,
                               asked.selected_dashboard_type)
        response == generate(prompt_of(context, user_query))
    IN  IF raised
        THEN asked
        ELSE [asked EXCEPT !.chat_history =
                 Append(@, [role |-> S("assistant"), content |-> response])]

MaxEntries == 4
MaxFeedbackRows == 2
Queries == {S("q1"), S("q2")}
Comments == {S("still broken")}
DisplayNames == DOMAIN dashboard_options(Registry)

\* The dashboard the selector shows
Selected(display_name) == dashboard_options(Registry)[display_name]

\* The first run of the script: the selector shows the first option.
InitChat ==
    /\ selectbox = Registry[1].display_name
    /\ session_state = select_dashboard(InitialSessionState, Selected(selectbox))
    /\ feedback = <<>>
    /\ origin = <<>>
    /\ issues_file = NotCalled
    /\ metadata_files = NotCalled
    /\ environ = NotCalled
    /\ cm = NotCalled
    /\ call = NotCalled
    /\ NoParsers

\* An entry appended by a run was appended under the dashboard the session
\* holds after the dashboard change handling of that run; positions that a
\* run empties lose their record.
RecordOrigin ==
    origin' = [i \in 1..Len(session_state'.chat_history) |->
                  IF i <= Len(origin) /\ i <= Len(session_state.chat_history)
                                      /\ session_state.chat_history # <<>>
                                      /\ session_state'.chat_history[i] = session_state.chat_history[i]
                  THEN origin[i]
                  ELSE [dashboard      |-> session_state'.selected_dashboard,
                        dashboard_type |-> session_state'.selected_dashboard_type]]

Indexes(state) == 0..(Len(state.chat_history) - 1)

SelectDashboard ==
    /\ \E display_name \in DisplayNames \ {selectbox} :
         /\ selectbox' = display_name
         /\ session_state' = select_dashboard(session_state, Selected(display_name))
    /\ RecordOrigin
    /\ UNCHANGED <<feedback, parserVars, contextVars>>

ClickYes ==
    /\ Len(feedback) < MaxFeedbackRows
    /\ LET state == select_dashboard(session_state, Selected(selectbox))
       IN  \E idx \in Indexes(state) :
             /\ yes_no_offered(state, idx)
             /\ session_state' = click_yes(state, feedback, idx).state
             /\ feedback' = click_yes(state, feedback, idx).rows
    /\ RecordOrigin
    /\ UNCHANGED <<selectbox, parserVars, contextVars>>

ClickNo ==
    /\ LET state == select_dashboard(session_state, Selected(selectbox))
       IN  \E idx \in Indexes(state) :
             /\ yes_no_offered(state, idx)
             /\ session_state' = click_no(state, idx)
    /\ RecordOrigin
    /\ UNCHANGED <<selectbox, feedback, parserVars, contextVars>>

SubmitFeedback ==
    /\ Len(feedback) < MaxFeedbackRows
    /\ LET state == select_dashboard(session_state, Selected(selectbox))
       IN  \E idx \in Indexes(state), feedback_comment \in Comments :
             /\ form_offered(state, idx)
             /\ session_state' = click_submit(state, feedback, idx, feedback_comment).state
             /\ feedback' = click_submit(state, feedback, idx, feedback_comment).rows
    /\ RecordOrigin
    /\ UNCHANGED <<selectbox, parserVars, contextVars>>

ChatInput ==
    /\ Len(session_state.chat_history) + 2 <= MaxEntries
    /\ LET state == select_dashboard(session_state, Selected(selectbox))
       IN  \E user_query \in Queries, raised \in BOOLEAN :
             session_state' = chat_input(state, user_query, raised)
    /\ RecordOrigin
    /\ UNCHANGED <<selectbox, feedback, parserVars, contextVars>>

NextChat ==
    \/ SelectDashboard
    \/ ClickYes
    \/ ClickNo
    \/ SubmitFeedback
    \/ ChatInput

SpecChat == InitChat /\ [][NextChat]_vars

-----------------------------------------------------------------------------
(* Properties of the extractors *)

WbParsed == wbOut # NotCalled
PfParsed == pfOut # NotCalled

Range(seq) == {seq[i] : i \in DOMAIN seq}

RECURSIVE Ascending(_)
\* The members of a set of element positions, in document order.
Ascending(set) ==
    IF set = {} THEN <<>>
    ELSE LET m == CHOOSE x \in set : \A y \in set : x <= y
         IN <<m>> \o Ascending(set \ {m})

Map(F(_), seq) == [i \in 1..Len(seq) |-> F(seq[i])]

\* The positions of the elements that pass a test: in the whole document,
\* and among the elements nested in element ctx.
Elems(root, Test(_)) == {j \in 1..Len(root) : Test(root[j])}
Below(root, ctx, Test(_)) ==
    {j \in 1..Len(root) : IsDescendant(root, j, ctx) /\ Test(root[j])}

IsTag(e, tag) == e.tag = tag
IsTyped(e, tag, type) == e.tag = tag /\ Has(e, "type") /\ e.attrs["type"] = S(type)

\* C1: the step_number values of extract_step_sequence are exactly 1..k in
\* list order, k being the number of node elements with a non-empty type
\* attribute; untyped nodes are skipped and consume no number.
C1_StepNumbers ==
    PfParsed =>
        LET typed == Elems(pf.root, LAMBDA e : /\ e.tag = "node"
                                                /\ Has(e, "type")
                                                /\ e.attrs["type"] # EmptyStr)
        IN /\ Len(pfOut.steps) = Cardinality(typed)
           /\ \A i \in 1..Len(pfOut.steps) :
                 /\ pfOut.steps[i].step_number = i
                 /\ pfOut.steps[i].id = Get(pf.root[Ascending(typed)[i]], "id", EmptyStr)

\* An untyped node and an empty-typed node, each followed by a typed one.
C1_Witness ==
    /\ PfParsed
    /\ Len(pf.root) = 3
    /\ \A j \in 1..3 : pf.root[j].tag = "node"
    /\ HasNoType(pf.root[1])
    /\ ~HasNoType(pf.root[2])
    /\ HasNoType(pf.root[1]) /\ pf.root[1].attrs # pf.root[3].attrs
    /\ ~HasNoType(pf.root[3])
    /\ Len(pfOut.steps) = 2

IsReservedName(name) == startswith(name, S("Parameters")) \/ name = S("Sample File")

\* C2: no record of extract_datasources has a name that begins with
\* `Parameters` or equals `Sample File`, and every other datasource element
\* that carries a name attribute produces a record.
C2_ReservedDatasources ==
    WbParsed =>
        LET kept == Ascending(Elems(wb.root,
                        LAMBDA e : /\ e.tag = "datasource"
                                   /\ Has(e, "name")
                                   /\ ~IsReservedName(e.attrs["name"])))
        IN /\ \A i \in 1..Len(wbOut.datasources) :
                 ~IsReservedName(wbOut.datasources[i].name)
           /\ Len(wbOut.datasources) = Len(kept)
           /\ \A i \in 1..Len(kept) :
                 wbOut.datasources[i].name = wb.root[kept[i]].attrs["name"]

\* A reserved-prefix name, the reserved literal and a name that only starts
\* with the literal, of which the last alone is extracted.
C2_Witness ==
    /\ WbParsed
    /\ Len(wb.root) = 3
    /\ \E j \in 1..3 : wb.root[j].attrs = [name |-> <<"Parameters", "1">>]
    /\ \E j \in 1..3 : wb.root[j].attrs = [name |-> S("Sample File")]
    /\ Len(wbOut.datasources) = 1
    /\ wbOut.datasources[1].name = <<"Sample File", "1">>

HasCalculation(root, j) == Below(root, j, LAMBDA e : e.tag = "calculation") # {}

\* C3 as stated: one record for every captioned column that carries a nested
\* calculation element or whose internal name contains `Calculated`, none
\* for a captioned column that fails both tests, and no cap.
C3_Original ==
    WbParsed =>
        LET passing == Ascending({j \in Elems(wb.root, LAMBDA e : e.tag = "column"
                                                           /\ Has(e, "caption")) :
                            \/ HasCalculation(wb.root, j)
                            \/ StrIn(S("Calculated"), Get(wb.root[j], "name", EmptyStr))})
        IN /\ Len(wbOut.calculated_fields) = Len(passing)
           /\ \A i \in 1..Len(passing) :
                 wbOut.calculated_fields[i].name = wb.root[passing[i]].attrs["caption"]

\* What extract_calculated_fields returns instead: one record for every
\* captioned column that carries a nested calculation element and none for
\* any other captioned column, whatever its internal name.
CalculatedFieldsHaveCalculation ==
    WbParsed =>
        LET passing == Ascending({j \in Elems(wb.root, LAMBDA e : e.tag = "column"
                                                           /\ Has(e, "caption")) :
                            HasCalculation(wb.root, j)})
        IN /\ Len(wbOut.calculated_fields) = Len(passing)
           /\ \A i \in 1..Len(passing) :
                 /\ wbOut.calculated_fields[i].name = wb.root[passing[i]].attrs["caption"]
                 /\ wbOut.calculated_fields[i].internal_name
                        = Get(wb.root[passing[i]], "name", EmptyStr)

\* A captioned column named `Calculated` without a calculation, beside a
\* captioned column with one: only the second is extracted.
CalculatedNameOnly ==
    /\ WbParsed
    /\ Len(wb.root) = 3
    /\ wb.root[1].tag = "column" /\ Has(wb.root[1], "caption")
    /\ StrIn(S("Calculated"), Get(wb.root[1], "name", EmptyStr))
    /\ ~HasCalculation(wb.root, 1)
    /\ wb.root[2].tag = "column" /\ Has(wb.root[2], "caption")
    /\ HasCalculation(wb.root, 2)
    /\ Len(wbOut.calculated_fields) = 1
    /\ wbOut.calculated_fields[1].name = wb.root[2].attrs["caption"]

InOrder(Info(_), set) == Map(Info, Ascending(set))

\* C4: every collection of both parse_to_dict results lists its records in
\* the document order of the elements they were built from, one record per
\* selected element: nothing is re-sorted or deduplicated.
C4_DocumentOrder ==
    /\ WbParsed =>
        LET root == wb.root IN
        /\ wbOut.datasources =
              InOrder(LAMBDA j : datasource_info(root, j),
                      Elems(root, LAMBDA e : /\ IsTag(e, "datasource") /\ Has(e, "name")
                                             /\ ~IsReservedName(e.attrs["name"])))
        /\ wbOut.calculated_fields =
              InOrder(LAMBDA j : calculated_field_info(root, j),
                      {j \in Elems(root, LAMBDA e : IsTag(e, "column") /\ Has(e, "caption")) : HasCalculation(root, j)})
        /\ wbOut.parameters =
              InOrder(LAMBDA j : parameter_info(root, j), Elems(root, LAMBDA e : IsTag(e, "parameter")))
        /\ wbOut.filters =
              InOrder(LAMBDA j : filter_info(root, j),
                      Elems(root, LAMBDA e : /\ IsTag(e, "filter")
                                             /\ \/ Get(e, "column", EmptyStr) # EmptyStr
                                                \/ Get(e, "field", EmptyStr) # EmptyStr))
        /\ wbOut.joins =
              InOrder(LAMBDA j : wb_join_info(root, j), Elems(root, LAMBDA e : IsTyped(e, "relation", "join")))
    /\ PfParsed =>
        LET root == pf.root
            typed == Ascending(Elems(root, LAMBDA e : IsTag(e, "node") /\ ~HasNoType(e))) IN
        /\ pfOut.input_sources =
              InOrder(LAMBDA j : input_info(root, j), Elems(root, LAMBDA e : IsTyped(e, "node", "input")))
        /\ pfOut.steps = [i \in 1..Len(typed) |-> step_info(root, typed[i], i)]
        /\ pfOut.joins =
              InOrder(LAMBDA j : pf_join_info(root, j), Elems(root, LAMBDA e : IsTyped(e, "node", "join")))
        /\ pfOut.outputs =
              InOrder(LAMBDA j : output_info(root, j), Elems(root, LAMBDA e : IsTyped(e, "node", "output")))

\* Three filter elements, the first and the last alike and all kept.
C4_Witness ==
    /\ WbParsed
    /\ Len(wb.root) = 3
    /\ Len(wbOut.filters) = 3
    /\ wbOut.filters[1] = wbOut.filters[3]
    /\ wbOut.filters[1] # wbOut.filters[2]

ConnectionKeys == {"class", "server", "dbname", "schema", "username", "authentication"}

DatasourceElems(root) ==
    Ascending(Elems(root, LAMBDA e : /\ IsTag(e, "datasource") /\ Has(e, "name")
                           /\ ~IsReservedName(e.attrs["name"])))

\* The first connection element below element j, 0 when there is none.
FirstConnection(root, j) ==
    LET below == Ascending(Below(root, j, LAMBDA e : IsTag(e, "connection"))) IN
    IF below = <<>> THEN 0 ELSE below[1]

IsEmpty(v) == DOMAIN v = {}

\* The fields of record rec read from attributes that element e lacks are ''.
\* keys maps a field of the record to the attribute it is read from.
AbsentAreEmpty(rec, e, keys) ==
    \A k \in DOMAIN keys : ~Has(e, keys[k]) => (k \in DOMAIN rec /\ rec[k] = EmptyStr)

Same(keys) == [k \in keys |-> k]

\* C5 as stated: parse_to_dict of either extractor raises for no missing
\* optional substructure, and every such absence (an element that has no
\* connection, calculation formula, clause, nested relations, inputs,
\* condition, operation or aggregations, or an attribute read without a
\* fallback value) yields an empty collection or an empty-string field.
C5_Original ==
    /\ WbParsed =>
        LET root == wb.root
            joins == Ascending(Elems(root, LAMBDA e : IsTyped(e, "relation", "join")))
            params == Ascending(Elems(root, LAMBDA e : IsTag(e, "parameter"))) IN
        /\ ~IsRaise(wbOut)
        /\ \A i \in 1..Len(wbOut.datasources) :
              LET conn == FirstConnection(root, DatasourceElems(root)[i])
                  rec == wbOut.datasources[i].connection IN
              IF conn = 0 THEN IsEmpty(rec)
              ELSE AbsentAreEmpty(rec, root[conn], Same(ConnectionKeys))
        /\ \A i \in 1..Len(wbOut.joins) :
              /\ Cardinality(Below(root, joins[i], LAMBDA e : IsTyped(e, "relation", "table"))) < 2
                    => wbOut.joins[i].tables = [left |-> EmptyStr, right |-> EmptyStr]
              /\ (Below(root, joins[i], LAMBDA e : IsTyped(e, "clause", "join")) = {}
                        /\ ~Has(root[joins[i]], "expression"))
                    => wbOut.joins[i].condition = EmptyStr
        /\ \A i \in 1..Len(wbOut.parameters) :
              AbsentAreEmpty(wbOut.parameters[i], root[params[i]],
                             [name |-> "name", datatype |-> "type",
                              value |-> "value", alias |-> "alias"])
    /\ PfParsed =>
        LET root == pf.root
            inputs == Ascending(Elems(root, LAMBDA e : IsTyped(e, "node", "input")))
            outputs == Ascending(Elems(root, LAMBDA e : IsTyped(e, "node", "output")))
            joins == Ascending(Elems(root, LAMBDA e : IsTyped(e, "node", "join")))
            typed == Ascending(Elems(root, LAMBDA e : IsTag(e, "node") /\ ~HasNoType(e))) IN
        /\ ~IsRaise(pfOut)
        /\ \A i \in 1..Len(pfOut.input_sources) :
              /\ AbsentAreEmpty(pfOut.input_sources[i], root[inputs[i]],
                                Same({"id", "name"}))
              /\ FirstConnection(root, inputs[i]) = 0
                    => IsEmpty(pfOut.input_sources[i].connection)
        /\ \A i \in 1..Len(pfOut.outputs) :
              /\ AbsentAreEmpty(pfOut.outputs[i], root[outputs[i]],
                                [id |-> "id", name |-> "name", input_source |-> "input"])
              /\ FirstConnection(root, outputs[i]) = 0
                    => IsEmpty(pfOut.outputs[i].connection)
        /\ \A i \in 1..Len(pfOut.joins) :
              /\ Below(root, joins[i], LAMBDA e : e.tag = "input") = {}
                    => IsEmpty(pfOut.joins[i].inputs)
              /\ Below(root, joins[i], LAMBDA e : e.tag = "join-clause") = {}
                    => IsEmpty(pfOut.joins[i].conditions)
        /\ \A i \in 1..Len(pfOut.steps) :
              LET step == pfOut.steps[i] j == typed[i] IN
              /\ AbsentAreEmpty(step, root[j],
                                [id |-> "id", name |-> "name", input_source |-> "input"])
              /\ (step.type = S("join") /\ ~Has(root[j], "join-type"))
                    => step.join_type = EmptyStr
              /\ (step.type = S("aggregate")
                        /\ Below(root, j, LAMBDA e : e.tag = "field") = {})
                    => IsEmpty(step.aggregations)
              /\ (step.type = S("filter")
                        /\ Below(root, j, LAMBDA e : e.tag = "condition") = {})
                    => IsEmpty(step.condition)
              /\ (step.type = S("clean")
                        /\ Below(root, j, LAMBDA e : e.tag = "operation") = {})
                    => IsEmpty(step.operation)

\* C6 as stated: in every connection sub-record of an extracted workbook
\* datasource, each of the six connection attributes that is absent from
\* the XML is the empty string: the key is there and its value is not None.
C6_Original ==
    WbParsed =>
        \A i \in 1..Len(wbOut.datasources) :
            LET conn == FirstConnection(wb.root, DatasourceElems(wb.root)[i])
                rec == wbOut.datasources[i].connection IN
            conn # 0 =>
                \A k \in ConnectionKeys :
                    ~Has(wb.root[conn], k) =>
                        (k \in DOMAIN rec /\ rec[k] # None /\ rec[k] = EmptyStr)

TableOf(e) ==
    IF Has(e, "table") THEN e.attrs["table"]
    ELSE IF Has(e, "name") THEN e.attrs["name"] ELSE EmptyStr

\* C7: extract_joins emits one record per join-typed relation element; its
\* left table is the first and its right table the second table-typed
\* relation element nested in it, in document order, and both are '' when
\* fewer than two are nested.
C7_JoinTables ==
    WbParsed =>
        LET root == wb.root
            joins == Ascending(Elems(root, LAMBDA e : IsTyped(e, "relation", "join"))) IN
        /\ ~IsRaise(wbOut)
        /\ Len(wbOut.joins) = Len(joins)
        /\ \A i \in 1..Len(joins) :
              LET nested == Ascending(Below(root, joins[i], LAMBDA e : IsTyped(e, "relation", "table"))) IN
              wbOut.joins[i].tables =
                IF Len(nested) >= 2
                THEN [left  |-> TableOf(root[nested[1]]),
                      right |-> TableOf(root[nested[2]])]
                ELSE [left |-> EmptyStr, right |-> EmptyStr]

\* A join relation holding the table relations Orders and Customers, in
\* this order: the record names Orders left and Customers right.
C7_Witness ==
    /\ WbParsed
    /\ Len(wbOut.joins) = 1
    /\ Len(wb.root) = 3
    /\ wb.root[2].parent = 1 /\ wb.root[3].parent = 1
    /\ wbOut.joins[1].tables = [left |-> S("Orders"), right |-> S("Customers")]

-----------------------------------------------------------------------------
(* Properties of the context manager *)

IssuesCalled == call # NotCalled /\ call.op = "get_relevant_issues"
SummaryCalled == call # NotCalled /\ call.op = "build_context_summary"

\* The cell contains the name as a literal substring, letter case ignored.
LiteralContains(cell, name) ==
    /\ cell # NaN
    /\ \E i \in 0..(Len(cell) - Len(name)) :
          \A k \in 1..Len(name) : lower(cell[i + k]) = lower(name[k])

\* The row has a dashboard-name field that contains the name.
RowMatches(row, name) ==
    NameColumn \in DOMAIN row /\ LiteralContains(row[NameColumn], name)

\* C8: get_relevant_issues(name, limit) returns exactly the first
\* min(limit, m) of the m matching rows, in the row order of the dataset, for
\* every dataset and every limit (a count: 0 or more), and never more than
\* limit rows.
C8_Original ==
    (/\ IssuesCalled
     /\ cm.issues_df # NoneRecord
     /\ "limit" \in DOMAIN call.args
     /\ call.args.limit >= 0) =>
        LET matching == SelectSeq(cm.issues_df.rows,
                            LAMBDA row : RowMatches(row, call.args.dashboard_name))
            limit == call.args.limit
            k == IF limit < Len(matching) THEN limit ELSE Len(matching)
        IN /\ ~IsRaise(call.result)
           /\ call.result.value = SubSeq(matching, 1, k)
           /\ Len(call.result.value) <= limit

\* C9: a record is selected by get_relevant_issues(dashboardName) if and only
\* if its dashboard-name field is present and contains dashboardName as a
\* literal case-insensitive substring: the query string is never read as a
\* pattern, and a record without the field never matches.  (Stated on the
\* calls whose limit is at least the number of rows, which truncate nothing.)
C9_Original ==
    (/\ IssuesCalled
     /\ cm.issues_df # NoneRecord
     /\ "limit" \in DOMAIN call.args
     /\ call.args.limit >= Len(cm.issues_df.rows)) =>
        /\ ~IsRaise(call.result)
        /\ \A i \in 1..Len(cm.issues_df.rows) :
              (cm.issues_df.rows[i] \in Range(call.result.value))
              <=> RowMatches(cm.issues_df.rows[i], call.args.dashboard_name)

DatasetUnavailable == ~issues_file.exists \/ ~issues_file.readable

\* The text ends with the separator lines and the no-issues placeholder.
EndsWithNoIssues(text) ==
    LET tail == <<EmptyLine, S("---"), EmptyLine>> \o NoIssues IN
    /\ Len(text) >= Len(tail)
    /\ SubSeq(text, Len(text) - Len(tail) + 1, Len(text)) = tail

\* C10 as stated: when the historical-issue dataset is missing or fails to
\* load at construction, then after any sequence of get_relevant_issues and
\* build_context_summary calls every query has returned the empty list
\* without raising, pd.read_excel has been called at construction only (once
\* on a file that exists, never on a missing one), and every summary ends
\* with the no-issues placeholder.
C10_Original ==
    DatasetUnavailable =>
        /\ cm.read_excel_calls = (IF issues_file.exists THEN 1 ELSE 0)
        /\ IssuesCalled => call.result = Return(<<>>)
        /\ SummaryCalled =>
              /\ ~IsRaise(call.result)
              /\ EndsWithNoIssues(call.result.value)

\* The workbook record build_context_summary loads for the last call.
SummaryOfWorkbook ==
    /\ SummaryCalled
    /\ call.args.dashboard_type = S("workbook")
    /\ load_dashboard_metadata(metadata_files, call.args.dashboard_name,
                               call.args.dashboard_type) \notin {NoneRecord, EmptyDict}

LoadedRecord ==
    load_dashboard_metadata(metadata_files, call.args.dashboard_name,
                            call.args.dashboard_type)

\* The lines of the sub-section under the given heading: the lines after the
\* heading line up to the next empty line or the end of the text; <<>> when
\* the heading does not occur.
SubSection(text, heading) ==
    IF \A i \in 1..Len(text) : text[i] # heading THEN <<>>
    ELSE LET h == CHOOSE i \in 1..Len(text) : text[i] = heading
             stop == {i \in (h + 1)..Len(text) : text[i] = EmptyLine}
             end == IF stop = {} THEN Len(text)
                    ELSE (CHOOSE i \in stop : \A j \in stop : i <= j) - 1
         IN SubSeq(text, h + 1, end)

IsBullet(line) == line # <<>> /\ line[1] = "- **"

Trailer(more) == <<"  _(... and ", ToString(more), " more)_">>
IsTrailer(line) == line # <<>> /\ line[1] = "  _(... and "

\* C11: for a workbook record with n calculated fields the calculated-fields
\* sub-section holds exactly min(n, 10) bullet entries, those of the first
\* fields in order, and one trailer line `(... and n-10 more)` if and only
\* if n > 10.
C11_CalculatedFieldsCap ==
    (SummaryOfWorkbook /\ ~IsRaise(call.result)) =>
        LET fields == DictGet(LoadedRecord, "calculated_fields", <<>>)
            n == Len(fields)
            shown == IF n < 10 THEN n ELSE 10
            lines == SubSection(call.result.value, S("## Calculated Fields:"))
            bullets == SelectSeq(lines, IsBullet)
            trailers == SelectSeq(lines, IsTrailer)
        IN /\ Len(bullets) = shown
           /\ \A i \in 1..shown :
                 bullets[i] = <<"- **">> \o fields[i].name \o <<"**: ">>
                              \o Backquote \o fields[i].formula \o Backquote
           /\ trailers = (IF n > 10 THEN <<Trailer(n - 10)>> ELSE <<>>)
           /\ Len(lines) = Len(bullets) + Len(trailers)

\* A summary of the workbook of 13 calculated fields: ten bullets, then the
\* trailer with the count 3.
C11_Witness ==
    /\ SummaryOfWorkbook
    /\ ~IsRaise(call.result)
    /\ Len(DictGet(LoadedRecord, "calculated_fields", <<>>)) = 13
    /\ SubSection(call.result.value, S("## Calculated Fields:"))[11] = Trailer(3)

\* No metadata record is available for the last summary call: the file is
\* absent or unreadable.
SummaryWithoutRecord ==
    /\ SummaryCalled
    /\ LoadedRecord = NoneRecord

IsIssuesTitle(line) ==
    line = S("# Historical Issues") \/ line = S("# Historical Issues & Resolutions")

Count(text, line) == Cardinality({i \in 1..Len(text) : text[i] = line})

\* C12: when no metadata record is available for the requested dashboard,
\* build_context_summary does not raise, and its result holds one
\* placeholder that names the dashboard and carries the literal
\* `(No metadata available)`, and still holds the historical-issues section.
C12_Original ==
    SummaryWithoutRecord =>
        /\ ~IsRaise(call.result)
        /\ LET text == call.result.value
               name == call.args.dashboard_name IN
           /\ Count(text, S("(No metadata available)")) = 1
           /\ Len(text[1]) >= Len(name)
           /\ SubSeq(text[1], Len(text[1]) - Len(name) + 1, Len(text[1])) = name
           /\ text[3] = S("(No metadata available)")
           /\ \E i \in 1..Len(text) : IsIssuesTitle(text[i])

C14_Original ==
    SummaryCalled =>
        /\ ~IsRaise(call.result)
        /\ \E i \in 1..Len(call.result.value) : call.result.value[i] # EmptyLine

IsMetadataTitle(line) ==
    line # <<>> /\ line[1] \in {"# Tableau Workbook: ", "# Tableau Prep Flow: ", "# "}

\* C15: every result of build_context_summary is the metadata section, then
\* the separator (one `---` line between blank lines), then the
\* historical-issues section: two sections, in that order.
C15_TwoSections ==
    (SummaryCalled /\ ~IsRaise(call.result)) =>
        LET text == call.result.value IN
        /\ Count(text, S("---")) = 1
        /\ LET s == CHOOSE i \in 1..Len(text) : text[i] = S("---") IN
           /\ s >= 3 /\ s + 2 <= Len(text)
           /\ text[s - 1] = EmptyLine /\ text[s + 1] = EmptyLine
           /\ IsMetadataTitle(text[1])
           /\ IsIssuesTitle(text[s + 2])
           /\ \A i \in 1..(s - 1) : ~IsIssuesTitle(text[i])
           /\ \A i \in (s + 1)..Len(text) : ~IsMetadataTitle(text[i])

\* A summary without a metadata record and with issues found: the
\* placeholder section, the separator, the formatted issues.
C15_Witness ==
    /\ SummaryWithoutRecord
    /\ ~IsRaise(call.result)
    /\ call.result.value[3] = S("(No metadata available)")
    /\ call.result.value[5] = S("---")
    /\ call.result.value[7] = S("# Historical Issues & Resolutions")


(***************************************************************************)
(* Properties of construction and of the single extractors.                *)
(***************************************************************************)

\* The parser that was constructed on xml_file, or the exception raised.
Constructed == IF wb # NotCalled THEN wb ELSE pf

NothingExtracted == wbOut = NotCalled /\ pfOut = NotCalled

NothingWritten == metadata_files = [workbooks |-> NoFiles, prep_flows |-> NoFiles]

\* C16: constructing WorkbookParser or PrepFlowParser on a missing file
\* raises FileNotFoundError and on malformed XML raises ValueError; in both
\* cases there is no parser object, nothing is extracted and no metadata is
\* written; otherwise the object holds the whole document.
C16_LoadOrFail ==
    xml_file # NotCalled =>
        /\ ~xml_file.exists => Constructed = Raise("FileNotFoundError")
        /\ (xml_file.exists /\ ~xml_file.wellformed) => Constructed = Raise("ValueError")
        /\ IsRaise(Constructed) => NothingExtracted /\ NothingWritten
        /\ (xml_file.exists /\ xml_file.wellformed) =>
              /\ ~IsRaise(Constructed)
              /\ Constructed.top = xml_file.top
              /\ Constructed.root = xml_file.root

\* A malformed workbook file was refused with ValueError.
C16_Witness ==
    /\ xml_file = MalformedXml
    /\ wb = Raise("ValueError")
    /\ NothingExtracted /\ NothingWritten

\* The input elements nested in a join node, in document order.
NestedInputs(root, j) == Ascending(Below(root, j, LAMBDA e : e.tag = "input"))

\* C17: for every prep-flow join node, left is the first nested input
\* element and right the second one in document order; later input elements
\* are not used, and a side with no input element is absent.
C17_Original ==
    PfParsed =>
        LET nodes == Ascending(Elems(pf.root, LAMBDA e : IsTyped(e, "node", "join"))) IN
        /\ Len(pfOut.joins) = Len(nodes)
        /\ \A i \in 1..Len(nodes) :
              LET ins == NestedInputs(pf.root, nodes[i])
                  inputs == pfOut.joins[i].inputs
              IN /\ "left" \in DOMAIN inputs <=> Len(ins) >= 1
                 /\ "right" \in DOMAIN inputs <=> Len(ins) >= 2
                 /\ Len(ins) >= 1 => inputs.left = join_input(pf.root[ins[1]])
                 /\ Len(ins) >= 2 => inputs.right = join_input(pf.root[ins[2]])

\* The join-typed clause elements nested in a relation, in document order.
NestedClauses(root, j) == Ascending(Below(root, j, LAMBDA e : IsTyped(e, "clause", "join")))

JoinRelations(root) == Ascending(Elems(root, LAMBDA e : IsTyped(e, "relation", "join")))

\* C18: the condition of every workbook join relation is the expression of
\* the first join-typed clause element nested in it when there is one, and
\* otherwise the expression attribute of the relation itself; an attribute
\* that is not there reads as the empty string.
C18_JoinClause ==
    WbParsed =>
        LET relations == JoinRelations(wb.root) IN
        /\ Len(wbOut.joins) = Len(relations)
        /\ \A i \in 1..Len(relations) :
              LET clauses == NestedClauses(wb.root, relations[i]) IN
              wbOut.joins[i].condition =
                  IF clauses # <<>>
                  THEN Get(wb.root[clauses[1]], "expression", EmptyStr)
                  ELSE Get(wb.root[relations[i]], "expression", EmptyStr)

\* A relation with an expression of its own and a nested clause, whose
\* condition is the clause's, beside a relation that falls back to its own.
C18_Witness ==
    /\ WbParsed
    /\ Len(wbOut.joins) = 2
    /\ \E i, j \in 1..2 :
          LET relations == JoinRelations(wb.root) IN
          /\ Has(wb.root[relations[i]], "expression")
          /\ NestedClauses(wb.root, relations[i]) # <<>>
          /\ wbOut.joins[i].condition # wb.root[relations[i]].attrs["expression"]
          /\ NestedClauses(wb.root, relations[j]) = <<>>
          /\ Has(wb.root[relations[j]], "expression")
          /\ wbOut.joins[j].condition = wb.root[relations[j]].attrs["expression"]

DetailKeys == {"join_type", "aggregations", "condition", "operation"}

\* The detail key that belongs to a step type, if any.
DetailOf(type) ==
    IF type = S("join") THEN {"join_type"}
    ELSE IF type = S("aggregate") THEN {"aggregations"}
    ELSE IF type = S("filter") THEN {"condition"}
    ELSE IF type = S("clean") THEN {"operation"}
    ELSE {}

\* C19: every step of extract_step_sequence carries the detail of its own
\* type and no other: join_type on join steps (the join-type attribute, or
\* the empty string), aggregations on aggregate steps, condition on filter
\* steps, operation on clean steps, and none of the four on any other type.
C19_StepDetails ==
    PfParsed =>
        \A i \in 1..Len(pfOut.steps) :
            LET step == pfOut.steps[i]
                typed == Ascending(Elems(pf.root, LAMBDA e : e.tag = "node" /\ ~HasNoType(e)))
            IN /\ DOMAIN step \cap DetailKeys = DetailOf(step.type)
               /\ step.type = S("join") =>
                     step.join_type = Get(pf.root[typed[i]], "join-type", EmptyStr)

\* A join step with its join type beside a step of another type that has no
\* detail.
C19_Witness ==
    /\ PfParsed
    /\ \E i, j \in 1..Len(pfOut.steps) :
          /\ pfOut.steps[i].type = S("join")
          /\ pfOut.steps[i].join_type = S("left")
          /\ pfOut.steps[j].type = S("union")
          /\ DOMAIN pfOut.steps[j] \cap DetailKeys = {}

\* An attribute that is there and is not the empty string.
NonEmpty(e, key) == Has(e, key) /\ e.attrs[key] # EmptyStr

IsComplete(e) == NonEmpty(e, "column") \/ NonEmpty(e, "field")

\* C20: extract_filters emits one record for every filter element whose
\* column attribute or field attribute is non-empty, carrying that column
\* and field, and no record for a filter element where both are empty or
\* absent.
C20_Filters ==
    WbParsed =>
        LET all == Elems(wb.root, LAMBDA e : e.tag = "filter")
            kept == Ascending({j \in all : IsComplete(wb.root[j])})
        IN /\ Len(wbOut.filters) = Cardinality(all) - Cardinality({j \in all : ~IsComplete(wb.root[j])})
           /\ Len(wbOut.filters) = Len(kept)
           /\ \A i \in 1..Len(kept) :
                 /\ wbOut.filters[i].column = Get(wb.root[kept[i]], "column", EmptyStr)
                 /\ wbOut.filters[i].field = Get(wb.root[kept[i]], "field", EmptyStr)
                 /\ wbOut.filters[i].column # EmptyStr \/ wbOut.filters[i].field # EmptyStr

\* A filter with a column, a filter with a field only and a dropped filter
\* whose column is empty.
C20_Witness ==
    /\ WbParsed
    /\ Len(wb.root) = 3
    /\ \A j \in 1..3 : wb.root[j].tag = "filter"
    /\ \E j \in 1..3 : ~IsComplete(wb.root[j])
    /\ Len(wbOut.filters) = 2
    /\ \E i \in 1..2 : wbOut.filters[i].column = EmptyStr
    /\ \E i \in 1..2 : wbOut.filters[i].field = EmptyStr

(***************************************************************************)
(* Properties of the formatters.                                           *)
(***************************************************************************)

WorkbookFormatted == call # NotCalled /\ call.op = "_format_workbook_metadata"

\* The record holds a list with items under the key.
Filled(d, key) == key \in DOMAIN d /\ Len(d[key]) > 0

\* The position of the first line of the text that equals the heading, 0
\* when there is none.
Position(text, heading) ==
    IF \A i \in 1..Len(text) : text[i] # heading THEN 0
    ELSE CHOOSE i \in 1..Len(text) :
            text[i] = heading /\ \A j \in 1..(i - 1) : text[j] # heading

\* The collections of a workbook record and their headings, in the order
\* of the sub-sections.
WorkbookKeys == <<"datasources", "calculated_fields", "parameters", "joins", "filters">>
WorkbookHeadings ==
    <<S("## Data Sources:"), S("## Calculated Fields:"), S("## Parameters:"),
      S("## Joins:"), S("## Active Filters:")>>

\* The sub-sections of a text: a heading occurs once, with entries under
\* it, exactly for the collections of the record that have items, and the
\* headings that occur are in the order given.
SubSectionsInOrder(text, metadata, keys, headings) ==
    /\ \A k \in 1..Len(keys) :
          IF Filled(metadata, keys[k])
          THEN Count(text, headings[k]) = 1 /\ SubSection(text, headings[k]) # <<>>
          ELSE Count(text, headings[k]) = 0
    /\ \A k, l \in 1..Len(keys) :
          (k < l /\ Position(text, headings[k]) > 0 /\ Position(text, headings[l]) > 0)
              => Position(text, headings[k]) < Position(text, headings[l])
    /\ \A i \in 1..Len(text) :
          (text[i] # <<>> /\ text[i][1] = "## ") => text[i] \in Range(headings)

\* C21: the workbook formatter emits its sub-sections in the order
\* datasources, calculated fields, parameters, joins, filters, and emits a
\* sub-section, header and entries, if and only if the collection of the
\* record has items.
C21_WorkbookSubSections ==
    (WorkbookFormatted /\ ~IsRaise(call.result)) =>
        SubSectionsInOrder(call.result.value, call.args.metadata,
                           WorkbookKeys, WorkbookHeadings)

\* A record with datasources, joins and filters, with an empty list of
\* parameters and without calculated fields.
C21_Witness ==
    /\ WorkbookFormatted
    /\ ~IsRaise(call.result)
    /\ LET metadata == call.args.metadata
           text == call.result.value IN
       /\ Filled(metadata, "datasources") /\ Filled(metadata, "joins")
       /\ Filled(metadata, "filters")
       /\ "calculated_fields" \notin DOMAIN metadata
       /\ "parameters" \in DOMAIN metadata /\ metadata.parameters = <<>>
       /\ 0 < Position(text, S("## Data Sources:"))
       /\ Position(text, S("## Data Sources:")) < Position(text, S("## Joins:"))
       /\ Position(text, S("## Joins:")) < Position(text, S("## Active Filters:"))
       /\ Position(text, S("## Parameters:")) = 0

\* The entry of a filter that has a column or a field and a class.
FilterEntry(filt) ==
    S("- ") \o (IF filt.column # EmptyStr THEN filt.column ELSE filt.field)
    \o S(" (") \o filt.class \o S(")")

\* C22: for a workbook record with n filters the filters sub-section holds
\* exactly min(n, 5) entries, those of the first filters in record order.
C22_FiltersCap ==
    (WorkbookFormatted /\ ~IsRaise(call.result)) =>
        LET filters == DictGet(call.args.metadata, "filters", <<>>)
            n == Len(filters)
            lines == SubSection(call.result.value, S("## Active Filters:"))
        IN /\ Len(lines) = (IF n < 5 THEN n ELSE 5)
           /\ \A i \in 1..Len(lines) : lines[i] = FilterEntry(filters[i])

\* A record of six filters: five entries, the sixth filter left out.
C22_Witness ==
    /\ WorkbookFormatted
    /\ ~IsRaise(call.result)
    /\ Len(DictGet(call.args.metadata, "filters", <<>>)) = 6
    /\ Len(SubSection(call.result.value, S("## Active Filters:"))) = 5
    /\ SubSection(call.result.value, S("## Active Filters:"))[5]
          = FilterEntry(call.args.metadata.filters[5])

PrepflowFormatted == call # NotCalled /\ call.op = "_format_prepflow_metadata"

PrepFlowKeys == <<"input_sources", "steps", "joins", "outputs">>
PrepFlowHeadings ==
    <<S("## Input Sources:"), S("## Transformation Steps:"), S("## Join Details:"),
      S("## Output Destinations:")>>

ConditionEntry(cond) ==
    S("  - ON: ") \o cond.left_field \o S(" ") \o cond.operator \o S(" ")
    \o cond.right_field

IsConditionEntry(line) == line # <<>> /\ line[1] = "  - ON: "

RECURSIVE AllConditions(_)
\* The conditions of the joins of a list, join by join.
AllConditions(joins) ==
    IF joins = <<>> THEN <<>>
    ELSE DictGet(Head(joins), "conditions", <<>>) \o AllConditions(Tail(joins))

\* C23: the prep-flow formatter emits its sub-sections in the order input
\* sources, steps, joins, outputs, each only when the collection has items;
\* every step of the record has its line, in order, and every condition of
\* every join has its line.
C23_PrepFlowSubSections ==
    (PrepflowFormatted /\ ~IsRaise(call.result)) =>
        LET metadata == call.args.metadata
            text == call.result.value
            steps == DictGet(metadata, "steps", <<>>)
            lines == SubSection(text, S("## Transformation Steps:"))
            conditions == AllConditions(DictGet(metadata, "joins", <<>>))
            entries == SelectSeq(SubSection(text, S("## Join Details:")), IsConditionEntry)
        IN /\ SubSectionsInOrder(text, metadata, PrepFlowKeys, PrepFlowHeadings)
           /\ Len(lines) = Len(steps)
           /\ \A i \in 1..Len(steps) :
                 /\ lines[i][1] = ToString(steps[i].step_number)
                 /\ SubSeq(lines[i], 5, 4 + Len(steps[i].name)) = steps[i].name
           /\ Len(entries) = Len(conditions)
           /\ \A i \in 1..Len(conditions) : entries[i] = ConditionEntry(conditions[i])
           /\ Len(SubSection(text, S("## Join Details:")))
                 = Len(DictGet(metadata, "joins", <<>>)) + Len(conditions)

\* A record of eleven steps and one join of three conditions: eleven step
\* lines and three condition lines.
C23_Witness ==
    /\ PrepflowFormatted
    /\ ~IsRaise(call.result)
    /\ Len(DictGet(call.args.metadata, "steps", <<>>)) = 11
    /\ Len(SubSection(call.result.value, S("## Transformation Steps:"))) = 11
    /\ Len(AllConditions(DictGet(call.args.metadata, "joins", <<>>))) = 3
    /\ Len(SelectSeq(SubSection(call.result.value, S("## Join Details:")),
                     IsConditionEntry)) = 3
    /\ "input_sources" \notin DOMAIN call.args.metadata
    /\ Filled(call.args.metadata, "outputs")

IssuesFormatted == call # NotCalled /\ call.op \in {"_format_issues", "issues_section"}

\* The cell of an issue as the text shows it.
Shown(issue, column) ==
    IF column \notin DOMAIN issue THEN S("N/A")
    ELSE IF issue[column] = NaN THEN S("nan")
    ELSE issue[column]

IsIssueHeading(line) == line # <<>> /\ line[1] = "## Issue "

\* C24: for a list of n >= 1 issues the section has a header with the count
\* n and then exactly n blocks numbered 1..n in list order, each with the
\* description, then the root cause, then the resolution; for the empty list
\* the section is a title and a single placeholder line saying that no
\* previous issues were found.
C24_IssuesSection ==
    IssuesFormatted =>
        LET issues == call.args.issues
            n == Len(issues)
            text == call.result.value
        IN IF n = 0
           THEN /\ Len(text) = 3
                /\ IsIssuesTitle(text[1])
                /\ text[2] = EmptyLine
                /\ text[3] \in {S("No previous issues found for this dashboard."),
                                 S("_No previous issues found for this dashboard._")}
           ELSE /\ text[1] = S("# Historical Issues & Resolutions")
                /\ text[3] = <<"_Found ", ToString(n), " similar past issue(s):_">>
                /\ Cardinality({l \in 1..Len(text) : IsIssueHeading(text[l])}) = n
                /\ \A i \in 1..n :
                      LET h == 5 * i IN
                      /\ text[h] = <<"## Issue ", ToString(i), ":">>
                      /\ text[h + 1] = S("**Description:** ") \o Shown(issues[i], DescriptionColumn)
                      /\ text[h + 2] = S("**Root Cause:** ") \o Shown(issues[i], "Root Cause")
                      /\ text[h + 3] = S("**Resolution:** ") \o Shown(issues[i], "Resolution")
                      /\ text[h + 4] = EmptyLine

\* The section of four issues as build_context_summary renders it.
C24_Witness ==
    /\ IssuesFormatted
    /\ call.op = "issues_section"
    /\ Len(call.args.issues) = 4
    /\ call.result.value[3] = <<"_Found ", "4", " similar past issue(s):_">>
    /\ call.result.value[20] = <<"## Issue ", "4", ":">>

(***************************************************************************)
(* Properties of the prompt builder.                                       *)
(***************************************************************************)

HistoryFormatted == call # NotCalled /\ call.op = "_format_chat_history"

\* The configured MAX_CHAT_HISTORY.
ConfiguredHistory ==
    IF environ = None THEN 4
    ELSE CHOOSE n \in 0..9 : <<ToString(n)>> = environ

IsHistoryEntry(line) == line # <<>> /\ line[1] \in {"User", "Assistant"}

\* The content of an entry as its line ends.
EntryContent(line) == SubSeq(line, 3, Len(line))

\* C25 as stated: the formatted text holds at most N entries, N being the
\* configured MAX_CHAT_HISTORY (N >= 0), and they are the most recent
\* entries of the history in their order.
C25_Original ==
    HistoryFormatted =>
        LET history == call.args.chat_history
            N == ConfiguredHistory
            shown == IF Len(history) < N THEN Len(history) ELSE N
            entries == SelectSeq(call.result.value, IsHistoryEntry)
        IN /\ Len(entries) <= N
           /\ Len(entries) = shown
           /\ \A i \in 1..Len(entries) :
                 LET entry == history[Len(history) - Len(entries) + i] IN
                 /\ entries[i][1] = (IF entry.role = S("user") THEN "User" ELSE "Assistant")
                 /\ entry.content # LongContent => EntryContent(entries[i]) = entry.content

(***************************************************************************)
(* Properties of the extractors and the formatters together.               *)
(***************************************************************************)

\* Every element of the list has the keys, none of them with the value
\* None.
AllHave(list, keys) ==
    \A i \in 1..Len(list) : \A k \in keys : k \in DOMAIN list[i] /\ list[i][k] # None

\* The keys the workbook formatter and the prep-flow formatter index
\* directly are there in every element of the record.
WorkbookKeysPresent(record) ==
    /\ AllHave(record.calculated_fields, {"name", "formula"})
    /\ AllHave(record.parameters, {"name", "datatype"})
    /\ AllHave(record.joins, {"join_type"})

PrepFlowKeysPresent(record) ==
    /\ AllHave(record.input_sources, {"name"})
    /\ AllHave(record.steps, {"type", "name"})
    /\ \A i \in 1..Len(record.steps) : record.steps[i].step_number \in 1..Len(record.steps)
    /\ AllHave(record.joins, {"name", "join_type"})
    /\ \A i \in 1..Len(record.joins) :
          AllHave(record.joins[i].conditions, {"left_field", "operator", "right_field"})
    /\ AllHave(record.outputs, {"name"})

\* C26: the record parse_to_dict returns for a workbook or prep-flow
\* document, and the record loaded from the file save_to_json wrote, which
\* is the same record, is rendered by the formatter of its type without
\* raising: every key the formatter indexes directly is there in every
\* extracted element.
C26_Compose ==
    /\ WbParsed =>
          /\ WorkbookKeysPresent(wbOut)
          /\ ~IsRaise(_format_metadata(wbOut, S("workbook")))
    /\ PfParsed =>
          /\ PrepFlowKeysPresent(pfOut)
          /\ ~IsRaise(_format_metadata(pfOut, S("prep_flow")))
    /\ \A name \in DOMAIN metadata_files.workbooks :
          LET record == load_dashboard_metadata(metadata_files, name, S("workbook")) IN
          /\ record = wb_parse_to_dict(wb, name)
          /\ WorkbookKeysPresent(record)
          /\ ~IsRaise(_format_metadata(record, S("workbook")))
    /\ \A name \in DOMAIN metadata_files.prep_flows :
          LET record == load_dashboard_metadata(metadata_files, name, S("prep_flow")) IN
          /\ record = pf_parse_to_dict(pf, name)
          /\ PrepFlowKeysPresent(record)
          /\ ~IsRaise(_format_metadata(record, S("prep_flow")))

\* A workbook with a parameter that has no attribute and a datasource whose
\* connection has none, extracted, saved and loaded.
C26_Witness ==
    /\ WbParsed
    /\ DOMAIN metadata_files.workbooks # {}
    /\ \E name \in DOMAIN metadata_files.workbooks :
          LET record == load_dashboard_metadata(metadata_files, name, S("workbook")) IN
          /\ \E i \in 1..Len(record.parameters) : record.parameters[i].datatype = EmptyStr
          /\ ~IsRaise(_format_metadata(record, S("workbook")))

IsJoinStep(step) == step.type = S("join")

\* C27 as stated: within one prep-flow extraction the join records
\* correspond one-to-one, in order, to the steps of type join, and the
\* join_type of a join record equals the join_type of its step, also when
\* the node has no join-type attribute.
C27_Original ==
    PfParsed =>
        LET join_steps == SelectSeq(pfOut.steps, IsJoinStep) IN
        /\ Len(join_steps) = Len(pfOut.joins)
        /\ \A i \in 1..Len(join_steps) :
              /\ join_steps[i].id = pfOut.joins[i].id
              /\ join_steps[i].name = pfOut.joins[i].name
              /\ join_steps[i].join_type = pfOut.joins[i].join_type

-----------------------------------------------------------------------------
(* Properties of the chat page *)

ChatHistory == session_state.chat_history
IsUser(entry) == entry.role = S("user")
IsAssistant(entry) == entry.role = S("assistant")

\* What a response was generated from: the dashboard name and type of its
\* context, and the query.
ResponseDashboard(response) == <<response[3]>>
ResponseType(response) == <<response[4]>>
ResponseQuery(response) == SubSeq(response, 5, Len(response))

\* C28: every assistant entry of chat_history directly follows the user entry
\* whose query produced it (so the history does not start with an assistant
\* entry and holds no two adjacent assistant entries), and the query logged
\* with a feedback row is the query that produced the response of that row.
C28_TurnOrder ==
    /\ \A i \in DOMAIN ChatHistory :
          IsAssistant(ChatHistory[i]) =>
             /\ i > 1
             /\ IsUser(ChatHistory[i - 1])
             /\ ChatHistory[i - 1].content = ResponseQuery(ChatHistory[i].content)
    /\ \A r \in DOMAIN feedback :
          feedback[r].user_query = ResponseQuery(feedback[r].assistant_response)

\* A failed generation, then a successful one on another query, and feedback
\* logged on its response.
C28_Witness ==
    /\ Len(ChatHistory) >= 3
    /\ IsUser(ChatHistory[1]) /\ IsUser(ChatHistory[2]) /\ IsAssistant(ChatHistory[3])
    /\ ChatHistory[1].content # ChatHistory[2].content
    /\ \E r \in DOMAIN feedback :
          /\ feedback[r].assistant_response = ChatHistory[3].content
          /\ feedback[r].dashboard = session_state.selected_dashboard

\* The feedback state of message idx: absent, show or submitted
FeedbackState(state, idx) ==
    DictGet(state.show_feedback_form, feedback_key(idx), S("absent"))

\* Message idx is an assistant message of the conversation before and after
\* the step.
Persists(idx) ==
    /\ idx < Len(session_state.chat_history)
    /\ idx < Len(session_state'.chat_history)
    /\ IsAssistant(EntryAt(session_state.chat_history, idx))
    /\ EntryAt(session_state'.chat_history, idx) = EntryAt(session_state.chat_history, idx)

\* The step appends one feedback row on message idx.
Logs(idx, resolved) ==
    /\ Len(feedback') = Len(feedback) + 1
    /\ SubSeq(feedback', 1, Len(feedback)) = feedback
    /\ feedback'[Len(feedback')].assistant_response =
          EntryAt(session_state.chat_history, idx).content
    /\ feedback'[Len(feedback')].resolved = resolved

FeedbackMove(idx) ==
    <<FeedbackState(session_state, idx), FeedbackState(session_state', idx)>>

\* C29: the feedback state of an assistant message moves only from absent to
\* submitted (Yes, one resolved row logged), from absent to show (No, nothing
\* logged) and from show to submitted (Submit, one unresolved row logged); a
\* step logs at most one row, and only on a message that it moves to
\* submitted, so a message whose feedback is submitted gets no further row.
C29_FeedbackOnce ==
    [][ /\ \A idx \in 0..(MaxEntries + 1) :
             Persists(idx) =>
                \/ /\ FeedbackMove(idx) = <<S("absent"), S("submitted")>>
                   /\ Logs(idx, TRUE)
                \/ /\ FeedbackMove(idx) = <<S("absent"), S("show")>>
                   /\ feedback' = feedback
                \/ /\ FeedbackMove(idx) = <<S("show"), S("submitted")>>
                   /\ Logs(idx, FALSE)
                \/ FeedbackMove(idx)[1] = FeedbackMove(idx)[2]
        /\ feedback' # feedback =>
              \E idx \in 0..(MaxEntries + 1) :
                 /\ Persists(idx)
                 /\ FeedbackMove(idx)[1] # S("submitted")
                 /\ FeedbackMove(idx)[2] = S("submitted")
                 /\ \E resolved \in BOOLEAN : Logs(idx, resolved)
                 /\ \A other \in 0..(MaxEntries + 1) \ {idx} :
                       Persists(other) =>
                          FeedbackMove(other)[1] = FeedbackMove(other)[2]
      ]_vars

\* Two responses in one conversation: feedback on the first submitted through
\* the comment form, feedback on the second submitted with Yes.
C29_Witness ==
    /\ Len(ChatHistory) = 4
    /\ FeedbackState(session_state, 1) = S("submitted")
    /\ FeedbackState(session_state, 3) = S("submitted")
    /\ Len(feedback) = 2
    /\ feedback[1].resolved = FALSE
    /\ feedback[1].comments = S("still broken")
    /\ feedback[2].resolved = TRUE

\* The dashboard chosen in the selector differs, in name or in type, from the
\* one stored in the session.
Differs(display_name, state) ==
    \/ Selected(display_name).name # state.selected_dashboard
    \/ Selected(display_name).type # state.selected_dashboard_type

CurrentDashboard ==
    [dashboard      |-> Selected(selectbox).name,
     dashboard_type |-> Selected(selectbox).type]

\* C30: a run that finds the chosen dashboard different from the stored one
\* ends with chat_history and show_feedback_form empty and logs nothing; every
\* entry of chat_history was appended, and every response in it generated,
\* under the dashboard now chosen; every feedback row names the dashboard
\* whose context produced its response.
C30_DashboardReset ==
    /\ [][ Differs(selectbox', session_state) =>
              /\ session_state'.chat_history = <<>>
              /\ session_state'.show_feedback_form = EmptyDict
              /\ session_state'.selected_dashboard = Selected(selectbox').name
              /\ session_state'.selected_dashboard_type = Selected(selectbox').type
              /\ feedback' = feedback ]_vars
    /\ [](/\ ~Differs(selectbox, session_state)
          /\ Len(origin) = Len(ChatHistory)
          /\ \A i \in DOMAIN ChatHistory :
                /\ origin[i] = CurrentDashboard
                /\ IsAssistant(ChatHistory[i]) =>
                      /\ ResponseDashboard(ChatHistory[i].content) = CurrentDashboard.dashboard
                      /\ ResponseType(ChatHistory[i].content) = CurrentDashboard.dashboard_type
          /\ \A r \in DOMAIN feedback :
                feedback[r].dashboard = ResponseDashboard(feedback[r].assistant_response))

\* A conversation with feedback under one dashboard, then a switch to a
\* dashboard of the same name and another type, and a conversation with
\* feedback there.
C30_Witness ==
    /\ selectbox = S("Sales Prep")
    /\ Len(ChatHistory) >= 2
    /\ Len(feedback) = 2
    /\ ResponseType(feedback[1].assistant_response) = S("workbook")
    /\ ResponseType(feedback[2].assistant_response) = S("prep_flow")
    /\ feedback[2].assistant_response = ChatHistory[2].content

====
